---------------------------- MODULE Spec2Model ----------------------------
(***************************************************************************)
(* Channel Registry (IORegistry) of the MiniLaboESP8266 firmware.          *)
(*                                                                         *)
(* Strings are sequences of one-character strings, so that trim(),         *)
(* toLowerCase() and equalsIgnoreCase() are computed character by          *)
(* character.  Floats carry small integers; a float argument that may be   *)
(* NaN or infinite is a record [kind, v].  An unsigned long is a record    *)
(* [hi, lo] of two 16-bit halves, computed modulo 2^32.                    *)
(* m_channels holds the live prefix m_channels[0 .. m_channelCount) of the *)
(* fixed array; the slots behind m_channelCount are never read.            *)
(***************************************************************************)
EXTENDS Integers, Sequences, FiniteSets, TLC

\* ------------------------------------------------------------------------
\* Bounds of the model (not program constants)
\* ------------------------------------------------------------------------
MaxAdvances == 3
MaxDocLen == 18
MaxQueue == 2
\* the number of requests enqueue() accepts in a run
MaxWrites == 3
\* the length of the ring of FileWriteService (FileWriteService.cpp names
\* kMaxQueueLength; its value is not set in the sources)
kMaxQueueLength == 2

\* ------------------------------------------------------------------------
\* Program constants
\* ------------------------------------------------------------------------
kMaxChannels == 16
staleThreshold == 5000
heartbeatPeriod == 1000
scanDelay == 10
defaultRxPort == 50000
defaultTxPort == 50001
\* an unsigned long has 32 bits: two halves of 16 bits each, [hi, lo]
HalfModulus == 65536

\* ------------------------------------------------------------------------
\* Arduino String helpers
\* ------------------------------------------------------------------------
UpperChars == <<"A", "B", "L", "T", "U", "D", "P", "V">>
LowerChars == <<"a", "b", "l", "t", "u", "d", "p", "v">>

ToLowerChar(c) ==
  IF \E n \in 1..Len(UpperChars) : UpperChars[n] = c
  THEN LowerChars[CHOOSE n \in 1..Len(UpperChars) : UpperChars[n] = c]
  ELSE c

ToLower(s) == [n \in 1..Len(s) |-> ToLowerChar(s[n])]

IsSpace(c) == c = " "

RECURSIVE TrimLeft(_)
TrimLeft(s) ==
  IF Len(s) > 0 /\ IsSpace(Head(s)) THEN TrimLeft(Tail(s)) ELSE s

RECURSIVE TrimRight(_)
TrimRight(s) ==
  IF Len(s) > 0 /\ IsSpace(s[Len(s)])
  THEN TrimRight(SubSeq(s, 1, Len(s) - 1))
  ELSE s

Trim(s) == TrimRight(TrimLeft(s))

trimmedString(value) == Trim(value)

hasText(value) == Len(value) > 0

equalsIgnoreCase(a, b) ==
  /\ Len(a) = Len(b)
  /\ \A n \in 1..Len(a) : ToLowerChar(a[n]) = ToLowerChar(b[n])

DigitChars == <<"0", "1", "2", "3", "4", "5", "6", "7", "8", "9">>

RECURSIVE DecStr(_)
DecStr(n) ==
  IF n < 10 THEN <<DigitChars[n + 1]>>
  ELSE DecStr(n \div 10) \o <<DigitChars[(n % 10) + 1]>>

\* ------------------------------------------------------------------------
\* unsigned long arithmetic (modulo 2^32)
\* ------------------------------------------------------------------------
ULong(n) == [hi |-> n \div HalfModulus, lo |-> n % HalfModulus]

ULongAdd(a, b) ==
  LET lo == a.lo + b.lo
      hi == a.hi + b.hi + (lo \div HalfModulus)
  IN [hi |-> hi % HalfModulus, lo |-> lo % HalfModulus]

ULongSub(a, b) ==
  LET lo == a.lo - b.lo
      hi == a.hi - b.hi - (IF lo < 0 THEN 1 ELSE 0)
  IN [hi |-> (hi + HalfModulus) % HalfModulus,
      lo |-> (lo + HalfModulus) % HalfModulus]

ULongGreater(a, b) == a.hi > b.hi \/ (a.hi = b.hi /\ a.lo > b.lo)

\* integers as written into a JSON document
JsonULong(u) == [neg |-> FALSE, hi |-> u.hi, lo |-> u.lo]
JsonMinusOne == [neg |-> TRUE, hi |-> 0, lo |-> 1]
JsonZero == [neg |-> FALSE, hi |-> 0, lo |-> 0]

\* ------------------------------------------------------------------------
\* Floats
\* ------------------------------------------------------------------------
Fin(v) == [kind |-> "finite", v |-> v]
NaN == [kind |-> "nan", v |-> 0]
Inf == [kind |-> "inf", v |-> 0]

isFiniteNumber(value) == value.kind = "finite"

\* ------------------------------------------------------------------------
\* JSON objects: a record whose domain is the set of keys present.
\* ------------------------------------------------------------------------
NonObject == [nonobject |-> TRUE]

IsObject(v) == "nonobject" \notin DOMAIN v

ContainsKey(obj, key) == key \in DOMAIN obj

OrDefault(obj, key, default) == IF key \in DOMAIN obj THEN obj[key] ELSE default

trimmedVariant(obj, key) == IF key \in DOMAIN obj THEN Trim(obj[key]) ELSE <<>>

\* first non-empty trimmed text among the alias keys, in order
RECURSIVE FirstText(_, _)
FirstText(obj, keys) ==
  IF keys = <<>> THEN <<>>
  ELSE LET t == trimmedVariant(obj, Head(keys))
       IN IF hasText(t) THEN t ELSE FirstText(obj, Tail(keys))

RECURSIVE FirstNumber(_, _)
FirstNumber(obj, keys) ==
  IF keys = <<>> THEN 0
  ELSE IF Head(keys) \in DOMAIN obj THEN obj[Head(keys)]
       ELSE FirstNumber(obj, Tail(keys))

\* ------------------------------------------------------------------------
\* Channel table
\* ------------------------------------------------------------------------
RemoteInfo ==
  [mac |-> <<>>, ip |-> <<>>, hostname |-> <<>>, rxPort |-> 0, txPort |-> 0,
   channelId |-> <<>>, channelLabel |-> <<>>, channelType |-> <<>>,
   channelIndex |-> 0, channelUnit |-> <<>>]

sTypeA0 == <<"a", "0">>
sTypeAds == <<"a", "d", "s", "1", "1", "1", "5">>
sTypeUdpIn == <<"u", "d", "p", "-", "i", "n">>
sTypeUdp == <<"u", "d", "p">>
sUnitV == <<"V">>

LoadRemote(remoteObj) ==
  LET channelId == FirstText(remoteObj, <<"channelId", "channel_id", "channel">>)
      label0 == FirstText(remoteObj, <<"channelLabel", "channel_label">>)
      channelLabel == IF ~hasText(label0) /\ hasText(channelId)
                      THEN channelId ELSE label0
  IN [mac |-> FirstText(remoteObj, <<"mac", "source_mac">>),
      ip |-> FirstText(remoteObj, <<"ip", "source_ip">>),
      hostname |-> FirstText(remoteObj, <<"hostname", "source_hostname">>),
      rxPort |-> FirstNumber(remoteObj, <<"rx_port", "rxPort">>),
      txPort |-> FirstNumber(remoteObj, <<"tx_port", "txPort">>),
      channelId |-> channelId,
      channelLabel |-> channelLabel,
      channelType |-> FirstText(remoteObj, <<"channelType", "channel_type">>),
      channelIndex |-> FirstNumber(remoteObj,
                         <<"channelIndex", "channel_index", "index">>),
      channelUnit |-> FirstText(remoteObj,
                         <<"channelUnit", "channel_unit", "unit">>)]

\* one iteration of the loop in begin(); count is m_channelCount after the
\* increment
LoadChannel(obj, count) ==
  LET type == ToLower(OrDefault(obj, "type", sTypeA0))
      isUdpIn == type = sTypeUdpIn \/ type = sTypeUdp
      unit0 == OrDefault(obj, "unit", sUnitV)
      withRemote == isUdpIn /\ ContainsKey(obj, "remote") /\ IsObject(obj.remote)
      remote == IF withRemote THEN LoadRemote(obj.remote) ELSE RemoteInfo
  IN [id |-> Trim(OrDefault(obj, "id", <<"c", "h">> \o DecStr(count))),
      type |-> type,
      index |-> OrDefault(obj, "index", 0),
      k |-> OrDefault(obj, "k", 1),
      b |-> OrDefault(obj, "b", 0),
      unit |-> IF withRemote /\ ~hasText(unit0) /\ hasText(remote.channelUnit)
               THEN remote.channelUnit ELSE unit0,
      isUdpIn |-> isUdpIn,
      hasRemote |-> withRemote,
      remote |-> remote,
      resolvedMac |-> <<>>,
      resolvedIp |-> <<>>,
      resolvedHostname |-> <<>>,
      lastRemoteRaw |-> 0,
      lastRemoteValue |-> 0,
      remoteHasRaw |-> FALSE,
      remoteHasValue |-> FALSE,
      remoteLastUpdate |-> ULong(0)]

\* variant: the loop does not stop at the table bound
RECURSIVE LoadLoop_NoBound(_, _, _)
LoadLoop_NoBound(arr, n, table) ==
  IF n > Len(arr) THEN table
  ELSE IF ~IsObject(arr[n]) THEN LoadLoop_NoBound(arr, n + 1, table)
  ELSE LoadLoop_NoBound(arr, n + 1,
                        Append(table, LoadChannel(arr[n], Len(table) + 1)))

\* the for loop of begin() over the entries of the list
RECURSIVE LoadLoop(_, _, _)
LoadLoop(arr, n, table) ==
  IF n > Len(arr) THEN table
  ELSE IF Len(table) >= kMaxChannels THEN table
  ELSE IF ~IsObject(arr[n]) THEN LoadLoop(arr, n + 1, table)
  ELSE LoadLoop(arr, n + 1, Append(table, LoadChannel(arr[n], Len(table) + 1)))

\* A configuration document: [shape, items].  shape is "array" (a bare list),
\* "object" (an object with a channels list), "other" (anything else) or
\* "noconfig" (begin called without a ConfigStore).
DocArray(doc) ==
  IF doc.shape = "array" \/ doc.shape = "object" THEN doc.items ELSE <<>>

ArrIsNull(doc) == ~(doc.shape = "array" \/ doc.shape = "object")

\* variant: the entries are loaded whatever the shape of the document
LoadTable_IgnoreShape(doc) == LoadLoop(doc.items, 1, <<>>)

LoadTable(doc) == IF ArrIsNull(doc) THEN <<>> ELSE LoadLoop(DocArray(doc), 1, <<>>)

\* ------------------------------------------------------------------------
\* ADS1115 lazy initialisation.  ads = [alloc, attempted, initialized];
\* beginOk is what the device's begin() reports.
\* ------------------------------------------------------------------------
\* variant: a failed initialisation is tried again
ensureAdsReady_Retry(ads, beginOk) ==
  LET a1 == IF ~ads.alloc
            THEN [alloc |-> TRUE, attempted |-> FALSE, initialized |-> FALSE]
            ELSE ads
  IN IF a1.attempted /\ a1.initialized THEN a1
     ELSE [alloc |-> TRUE, attempted |-> TRUE, initialized |-> beginOk]

ensureAdsReady(ads, beginOk) ==
  LET a1 == IF ~ads.alloc
            THEN [alloc |-> TRUE, attempted |-> FALSE, initialized |-> FALSE]
            ELSE ads
  IN IF a1.attempted THEN a1
     ELSE [alloc |-> TRUE, attempted |-> TRUE, initialized |-> beginOk]

NeedAds(table) == \E n \in 1..Len(table) : table[n].type = sTypeAds

\* ------------------------------------------------------------------------
\* Read path.  hw = [a0, ads, beginOk]: the samples the converters deliver
\* and the outcome of the ADS1115 begin() during this call.
\* ------------------------------------------------------------------------
\* index of the first channel carrying the id, 0 when there is none
FindChannel(table, id) ==
  IF \E n \in 1..Len(table) : table[n].id = id
  THEN CHOOSE n \in 1..Len(table) :
         /\ table[n].id = id
         /\ \A m \in 1..(n - 1) : table[m].id # id
  ELSE 0

\* ADS state after readRaw(id)
readRawAds(table, ads, id, hw) ==
  LET n == FindChannel(table, id)
  IN IF n = 0 THEN ads
     ELSE IF table[n].isUdpIn THEN ads
     ELSE IF table[n].type = sTypeAds /\ ~ads.initialized
          THEN ensureAdsReady(ads, hw.beginOk)
     ELSE ads

\* variant: the cached value is preferred to the cached raw
readRaw_PreferValue(table, ads, id, hw) ==
  LET n == FindChannel(table, id)
  IN IF n = 0 THEN 0
     ELSE LET ch == table[n]
          IN IF ch.isUdpIn
             THEN IF ch.remoteHasValue THEN ch.lastRemoteValue
                  ELSE IF ch.remoteHasRaw THEN ch.lastRemoteRaw
                  ELSE 0
             ELSE IF ch.type = sTypeA0 THEN hw.a0
             ELSE IF ch.type = sTypeAds
                  THEN IF readRawAds(table, ads, id, hw).initialized /\ ch.index < 4
                       THEN hw.ads
                       ELSE 0
             ELSE 0

\* value returned by readRaw(id)
readRaw(table, ads, id, hw) ==
  LET n == FindChannel(table, id)
  IN IF n = 0 THEN 0
     ELSE LET ch == table[n]
          IN IF ch.isUdpIn
             THEN IF ch.remoteHasRaw THEN ch.lastRemoteRaw
                  ELSE IF ch.remoteHasValue THEN ch.lastRemoteValue
                  ELSE 0
             ELSE IF ch.type = sTypeA0 THEN hw.a0
             ELSE IF ch.type = sTypeAds
                  THEN IF readRawAds(table, ads, id, hw).initialized /\ ch.index < 4
                       THEN hw.ads
                       ELSE 0
             ELSE 0

\* variant: the offset b is left out
convert_NoOffset(table, id, raw) ==
  LET n == FindChannel(table, id)
  IN IF n = 0 THEN 0 ELSE table[n].k * raw

convert(table, id, raw) ==
  LET n == FindChannel(table, id)
  IN IF n = 0 THEN 0 ELSE table[n].k * raw + table[n].b

readValue(table, ads, id, hw) == convert(table, id, readRaw(table, ads, id, hw))

\* ------------------------------------------------------------------------
\* snapshot
\* ------------------------------------------------------------------------
\* variant: only a cached raw counts as remote data
SnapshotRemote_RawOnly(ch, nowMs) ==
  LET hasRemoteData == ch.remoteHasRaw
      age == ULongSub(nowMs, ch.remoteLastUpdate)
  IN [configured |-> ch.hasRemote,
      status |-> IF hasRemoteData
                 THEN (IF ULongGreater(age, ULong(staleThreshold))
                       THEN "stale" ELSE "online")
                 ELSE "waiting",
      age_ms |-> IF hasRemoteData THEN JsonULong(age) ELSE JsonMinusOne,
      has_last_raw |-> hasRemoteData /\ ch.remoteHasRaw,
      last_raw |-> IF hasRemoteData /\ ch.remoteHasRaw THEN ch.lastRemoteRaw ELSE 0,
      has_last_value |-> hasRemoteData /\ ch.remoteHasValue,
      last_value |-> IF hasRemoteData /\ ch.remoteHasValue
                     THEN ch.lastRemoteValue ELSE 0,
      source_mac |-> IF hasText(ch.resolvedMac) THEN ch.resolvedMac
                     ELSE ch.remote.mac,
      source_ip |-> IF hasText(ch.resolvedIp) THEN ch.resolvedIp
                    ELSE ch.remote.ip,
      source_hostname |-> IF hasText(ch.resolvedHostname) THEN ch.resolvedHostname
                          ELSE ch.remote.hostname]

\* variant: stale as soon as the age reaches the threshold
SnapshotRemote_StaleAtThreshold(ch, nowMs) ==
  LET hasRemoteData == ch.remoteHasRaw \/ ch.remoteHasValue
      age == ULongSub(nowMs, ch.remoteLastUpdate)
  IN [configured |-> ch.hasRemote,
      status |-> IF hasRemoteData
                 THEN (IF ~ULongGreater(ULong(staleThreshold), age)
                       THEN "stale" ELSE "online")
                 ELSE "waiting",
      age_ms |-> IF hasRemoteData THEN JsonULong(age) ELSE JsonMinusOne,
      has_last_raw |-> hasRemoteData /\ ch.remoteHasRaw,
      last_raw |-> IF hasRemoteData /\ ch.remoteHasRaw THEN ch.lastRemoteRaw ELSE 0,
      has_last_value |-> hasRemoteData /\ ch.remoteHasValue,
      last_value |-> IF hasRemoteData /\ ch.remoteHasValue
                     THEN ch.lastRemoteValue ELSE 0,
      source_mac |-> IF hasText(ch.resolvedMac) THEN ch.resolvedMac
                     ELSE ch.remote.mac,
      source_ip |-> IF hasText(ch.resolvedIp) THEN ch.resolvedIp
                    ELSE ch.remote.ip,
      source_hostname |-> IF hasText(ch.resolvedHostname) THEN ch.resolvedHostname
                          ELSE ch.remote.hostname]

\* the "remote" object of one udp-in entry
SnapshotRemote(ch, nowMs) ==
  LET hasRemoteData == ch.remoteHasRaw \/ ch.remoteHasValue
      age == ULongSub(nowMs, ch.remoteLastUpdate)
  IN [configured |-> ch.hasRemote,
      status |-> IF hasRemoteData
                 THEN (IF ULongGreater(age, ULong(staleThreshold))
                       THEN "stale" ELSE "online")
                 ELSE "waiting",
      age_ms |-> IF hasRemoteData THEN JsonULong(age) ELSE JsonMinusOne,
      has_last_raw |-> hasRemoteData /\ ch.remoteHasRaw,
      last_raw |-> IF hasRemoteData /\ ch.remoteHasRaw THEN ch.lastRemoteRaw ELSE 0,
      has_last_value |-> hasRemoteData /\ ch.remoteHasValue,
      last_value |-> IF hasRemoteData /\ ch.remoteHasValue
                     THEN ch.lastRemoteValue ELSE 0,
      source_mac |-> IF hasText(ch.resolvedMac) THEN ch.resolvedMac
                     ELSE ch.remote.mac,
      source_ip |-> IF hasText(ch.resolvedIp) THEN ch.resolvedIp
                    ELSE ch.remote.ip,
      source_hostname |-> IF hasText(ch.resolvedHostname) THEN ch.resolvedHostname
                          ELSE ch.remote.hostname]

NoRemoteObject ==
  [configured |-> FALSE, status |-> "none", age_ms |-> JsonZero,
   has_last_raw |-> FALSE, last_raw |-> 0, has_last_value |-> FALSE,
   last_value |-> 0, source_mac |-> <<>>, source_ip |-> <<>>,
   source_hostname |-> <<>>]

\* ADS state before the loop of snapshot() reaches entry n
RECURSIVE SnapshotAds(_, _, _, _)
SnapshotAds(table, ads, n, hw) ==
  IF n <= 1 THEN ads
  ELSE readRawAds(table, SnapshotAds(table, ads, n - 1, hw), table[n - 1].id, hw)

\* entry n of the "channels" array written by snapshot()
SnapshotEntry(table, ads, n, nowMs, hw) ==
  LET ch == table[n]
      raw == readRaw(table, SnapshotAds(table, ads, n, hw), ch.id, hw)
  IN [id |-> ch.id, type |-> ch.type, index |-> ch.index,
      k |-> ch.k, b |-> ch.b, unit |-> ch.unit,
      raw |-> raw,
      value |-> convert(table, ch.id, raw),
      hasRemoteObject |-> ch.isUdpIn,
      remote |-> IF ch.isUdpIn THEN SnapshotRemote(ch, nowMs) ELSE NoRemoteObject]

snapshot(table, ads, nowMs, hw) ==
  [n \in 1..Len(table) |-> SnapshotEntry(table, ads, n, nowMs, hw)]

\* entry of describeChannels()
DescribeEntry(ch) ==
  [id |-> ch.id, type |-> ch.type, index |-> ch.index, k |-> ch.k, b |-> ch.b,
   unit |-> ch.unit,
   origin |-> IF ch.isUdpIn THEN sTypeUdpIn ELSE ch.type,
   has_raw |-> ch.isUdpIn /\ ch.remoteHasRaw,
   has_value |-> ch.isUdpIn /\ ch.remoteHasValue]

describeChannels(table) == [n \in 1..Len(table) |-> DescribeEntry(table[n])]

\* ------------------------------------------------------------------------
\* updateRemoteValue.  a = [mac, ip, channelId, channelLabel, raw, value,
\* unit, hostname] are the arguments of the call.
\* ------------------------------------------------------------------------
\* variant: only id against channelId and label against channelLabel
IdMatches_NoCross(ch, idTrim, labelTrim) ==
  IF ch.hasRemote
  THEN \/ /\ hasText(ch.remote.channelId) /\ hasText(idTrim)
          /\ equalsIgnoreCase(ch.remote.channelId, idTrim)
       \/ /\ hasText(ch.remote.channelLabel) /\ hasText(labelTrim)
          /\ equalsIgnoreCase(ch.remote.channelLabel, labelTrim)
  ELSE \/ hasText(idTrim) /\ equalsIgnoreCase(ch.id, idTrim)
       \/ hasText(labelTrim) /\ equalsIgnoreCase(ch.id, labelTrim)

\* identity match of one channel (idTrim, labelTrim are the trimmed arguments)
IdMatches(ch, idTrim, labelTrim) ==
  IF ch.hasRemote
  THEN \/ /\ hasText(ch.remote.channelId) /\ hasText(idTrim)
          /\ equalsIgnoreCase(ch.remote.channelId, idTrim)
       \/ /\ hasText(ch.remote.channelId) /\ hasText(labelTrim)
          /\ equalsIgnoreCase(ch.remote.channelId, labelTrim)
       \/ /\ hasText(ch.remote.channelLabel) /\ hasText(idTrim)
          /\ equalsIgnoreCase(ch.remote.channelLabel, idTrim)
       \/ /\ hasText(ch.remote.channelLabel) /\ hasText(labelTrim)
          /\ equalsIgnoreCase(ch.remote.channelLabel, labelTrim)
  ELSE \/ hasText(idTrim) /\ equalsIgnoreCase(ch.id, idTrim)
       \/ hasText(labelTrim) /\ equalsIgnoreCase(ch.id, labelTrim)

RequireHostMatch(ch) ==
  /\ ch.hasRemote
  /\ hasText(ch.remote.mac) \/ hasText(ch.remote.ip) \/ hasText(ch.remote.hostname)

\* variant: every specified field has to match
HostMatches_AllOf(ch, macTrim, ipTrim, hostTrim) ==
  /\ hasText(ch.remote.mac)
       => (hasText(macTrim) /\ equalsIgnoreCase(ch.remote.mac, macTrim))
  /\ hasText(ch.remote.ip)
       => (hasText(ipTrim) /\ equalsIgnoreCase(ch.remote.ip, ipTrim))
  /\ hasText(ch.remote.hostname)
       => (hasText(hostTrim) /\ equalsIgnoreCase(ch.remote.hostname, hostTrim))

HostMatches(ch, macTrim, ipTrim, hostTrim) ==
  \/ /\ hasText(ch.remote.mac) /\ hasText(macTrim)
     /\ equalsIgnoreCase(ch.remote.mac, macTrim)
  \/ /\ hasText(ch.remote.ip) /\ hasText(ipTrim)
     /\ equalsIgnoreCase(ch.remote.ip, ipTrim)
  \/ /\ hasText(ch.remote.hostname) /\ hasText(hostTrim)
     /\ equalsIgnoreCase(ch.remote.hostname, hostTrim)

\* the host filter lets the channel through
HostFilterPasses(ch, macTrim, ipTrim, hostTrim) ==
  ~(RequireHostMatch(ch) /\ ~HostMatches(ch, macTrim, ipTrim, hostTrim))

\* variant: the kind of the channel is not looked at
Accepts_IgnoreKind(ch, a) ==
  /\ IdMatches(ch, trimmedString(a.channelId), trimmedString(a.channelLabel))
  /\ HostFilterPasses(ch, trimmedString(a.mac), trimmedString(a.ip),
                      trimmedString(a.hostname))

\* the loop body reaches the apply part for this channel
Accepts(ch, a) ==
  /\ ch.isUdpIn
  /\ IdMatches(ch, trimmedString(a.channelId), trimmedString(a.channelLabel))
  /\ HostFilterPasses(ch, trimmedString(a.mac), trimmedString(a.ip),
                      trimmedString(a.hostname))

\* variant: a new raw is merged with the cached one
ApplyCache_MergeRaw(ch, a, nowMs) ==
  LET hasRaw == isFiniteNumber(a.raw)
      hasValue == isFiniteNumber(a.value)
  IN [ch EXCEPT
        !.remoteLastUpdate = nowMs,
        !.lastRemoteRaw = IF hasRaw
                          THEN (IF ch.remoteHasRaw THEN @ + a.raw.v ELSE a.raw.v)
                          ELSE @,
        !.remoteHasRaw = IF hasRaw THEN TRUE ELSE @,
        !.lastRemoteValue = IF hasValue THEN a.value.v
                            ELSE IF hasRaw /\ ~ch.remoteHasValue THEN a.raw.v
                            ELSE @,
        !.remoteHasValue = IF hasValue THEN TRUE ELSE @]

\* variant: the value is seeded from the raw cached before this call
ApplyCache_SeedFromPrevious(ch, a, nowMs) ==
  LET hasRaw == isFiniteNumber(a.raw)
      hasValue == isFiniteNumber(a.value)
  IN [ch EXCEPT
        !.remoteLastUpdate = nowMs,
        !.lastRemoteRaw = IF hasRaw THEN a.raw.v ELSE @,
        !.remoteHasRaw = IF hasRaw THEN TRUE ELSE @,
        !.lastRemoteValue = IF hasValue THEN a.value.v
                            ELSE IF hasRaw /\ ~ch.remoteHasValue
                            THEN ch.lastRemoteRaw
                            ELSE @,
        !.remoteHasValue = IF hasValue THEN TRUE ELSE @]

\* the cache part of the apply step
ApplyCache(ch, a, nowMs) ==
  LET hasRaw == isFiniteNumber(a.raw)
      hasValue == isFiniteNumber(a.value)
  IN [ch EXCEPT
        !.remoteLastUpdate = nowMs,
        !.lastRemoteRaw = IF hasRaw THEN a.raw.v ELSE @,
        !.remoteHasRaw = IF hasRaw THEN TRUE ELSE @,
        !.lastRemoteValue = IF hasValue THEN a.value.v
                            ELSE IF hasRaw /\ ~ch.remoteHasValue THEN a.raw.v
                            ELSE @,
        !.remoteHasValue = IF hasValue THEN TRUE ELSE @]

\* the descriptor part of the apply step: ids, labels and units
ApplyDescriptor(ch, a) ==
  LET idTrim == trimmedString(a.channelId)
      labelTrim == trimmedString(a.channelLabel)
      unitTrim == trimmedString(a.unit)
      unit1 == IF hasText(unitTrim) /\ ~hasText(ch.remote.channelUnit)
               THEN unitTrim ELSE ch.remote.channelUnit
      \* backfill of a configured descriptor, or synthesis of a missing one
      id1 == IF ch.hasRemote
             THEN (IF ~hasText(ch.remote.channelId) /\ hasText(idTrim)
                   THEN idTrim ELSE ch.remote.channelId)
             ELSE (IF hasText(idTrim) THEN idTrim ELSE ch.remote.channelId)
      label1 == IF ch.hasRemote
                THEN (IF ~hasText(ch.remote.channelLabel) /\ hasText(labelTrim)
                      THEN labelTrim ELSE ch.remote.channelLabel)
                ELSE (IF hasText(labelTrim) THEN labelTrim
                      ELSE IF ~hasText(ch.remote.channelLabel) /\ hasText(idTrim)
                      THEN idTrim
                      ELSE ch.remote.channelLabel)
  IN [ch EXCEPT
        !.unit = IF hasText(unitTrim) /\ ~hasText(@) THEN unitTrim ELSE @,
        !.remote.channelUnit = unit1,
        !.remote.channelId = id1,
        !.remote.channelLabel = label1,
        !.hasRemote = IF ch.hasRemote THEN TRUE
                      ELSE hasText(id1) \/ hasText(label1)]

\* variant: the descriptor follows the latest sender
ApplySender_Overwrite(ch, a) ==
  LET macTrim == trimmedString(a.mac)
      ipTrim == trimmedString(a.ip)
      hostTrim == trimmedString(a.hostname)
  IN [ch EXCEPT
        !.resolvedMac = IF hasText(macTrim) THEN macTrim ELSE @,
        !.resolvedIp = IF hasText(ipTrim) THEN ipTrim ELSE @,
        !.resolvedHostname = IF hasText(hostTrim) THEN hostTrim ELSE @,
        !.remote.mac = IF hasText(macTrim) THEN macTrim ELSE @,
        !.remote.ip = IF hasText(ipTrim) THEN ipTrim ELSE @,
        !.remote.hostname = IF hasText(hostTrim) THEN hostTrim ELSE @]

\* the sender part of the apply step
ApplySender(ch, a) ==
  LET macTrim == trimmedString(a.mac)
      ipTrim == trimmedString(a.ip)
      hostTrim == trimmedString(a.hostname)
  IN [ch EXCEPT
        !.resolvedMac = IF hasText(macTrim) THEN macTrim ELSE @,
        !.resolvedIp = IF hasText(ipTrim) THEN ipTrim ELSE @,
        !.resolvedHostname = IF hasText(hostTrim) THEN hostTrim ELSE @,
        !.remote.mac = IF ~hasText(@) /\ hasText(macTrim) THEN macTrim ELSE @,
        !.remote.ip = IF ~hasText(@) /\ hasText(ipTrim) THEN ipTrim ELSE @,
        !.remote.hostname = IF ~hasText(@) /\ hasText(hostTrim) THEN hostTrim
                            ELSE @]

\* one iteration of the loop of updateRemoteValue
UpdateChannel(ch, a, nowMs) ==
  IF Accepts(ch, a)
  THEN ApplySender(ApplyDescriptor(ApplyCache(ch, a, nowMs), a), a)
  ELSE ch

\* indices of the channels the call counts in `updated`
UpdatedSet(table, a) == {n \in 1..Len(table) : Accepts(table[n], a)}

\* the table after the call
UpdatedTable(table, a, nowMs) ==
  [n \in 1..Len(table) |-> UpdateChannel(table[n], a, nowMs)]

\* the return value
updateRemoteValue(table, a) == Cardinality(UpdatedSet(table, a))

\* what is known of the accepted updates of a channel: whether there was
\* one, when the last one was accepted, and the last finite raw and value
\* that were supplied
NoSample ==
  [accepted |-> FALSE, at |-> ULong(0), hasRaw |-> FALSE, raw |-> 0,
   hasValue |-> FALSE, value |-> 0]

SampleAfter(last, table, a, nowMs) ==
  [n \in 1..Len(table) |->
     IF n \in UpdatedSet(table, a)
     THEN [accepted |-> TRUE,
           at |-> nowMs,
           hasRaw |-> last[n].hasRaw \/ isFiniteNumber(a.raw),
           raw |-> IF isFiniteNumber(a.raw) THEN a.raw.v ELSE last[n].raw,
           hasValue |-> last[n].hasValue \/ isFiniteNumber(a.value),
           value |-> IF isFiniteNumber(a.value) THEN a.value.v
                     ELSE last[n].value]
     ELSE last[n]]

\* ------------------------------------------------------------------------
\* UdpService: from a JSON payload to the arguments of updateRemoteValue.
\* A payload is a JSON object (record); a number in it is a float record.
\* ------------------------------------------------------------------------
RECURSIVE FirstOf_Last(_)
FirstOf_Last(texts) ==
  IF Len(texts) = 0 THEN <<>>
  ELSE IF hasText(texts[Len(texts)]) THEN texts[Len(texts)]
  ELSE FirstOf_Last(SubSeq(texts, 1, Len(texts) - 1))

\* first text of the list that is not empty
RECURSIVE FirstOf(_)
FirstOf(texts) ==
  IF Len(texts) = 0 THEN <<>>
  ELSE IF hasText(Head(texts)) THEN Head(texts)
  ELSE FirstOf(Tail(texts))

\* obj["channel"].as<JsonObjectConst>(): NonObject stands for the null object
NestedChannel(obj) ==
  IF ContainsKey(obj, "channel") /\ IsObject(obj.channel) THEN obj.channel
  ELSE NonObject

\* extractFloat(obj[key], out): the result, and out after the call
extractFloat(obj, key) == ContainsKey(obj, key) /\ isFiniteNumber(obj[key])

extractFloatOut(obj, key, out) == IF ContainsKey(obj, key) THEN obj[key] ELSE out

\* payload.is<JsonObject>() in applyRemoteValue
PayloadIsObject(payload) == IsObject(payload) /\ "malformed" \notin DOMAIN payload

\* the arguments applyRemoteValue passes to updateRemoteValue
RemoteArgs(obj, mac, hostname, ipStr) ==
  LET channelObj == NestedChannel(obj)
      raw1 == extractFloatOut(obj, "raw", NaN)
      raw == IF ~extractFloat(obj, "raw") /\ IsObject(channelObj)
             THEN extractFloatOut(channelObj, "raw", raw1) ELSE raw1
      value1 == extractFloatOut(obj, "value", NaN)
      value2 == IF ~extractFloat(obj, "value") /\ IsObject(channelObj)
                THEN extractFloatOut(channelObj, "value", value1) ELSE value1
      value3 == extractFloatOut(obj, "converted", value2)
      value == IF ~extractFloat(obj, "converted") /\ IsObject(channelObj)
               THEN extractFloatOut(channelObj, "converted", value3) ELSE value3
  IN [channelId |->
        FirstOf(<<trimmedVariant(obj, "channelId"),
                  trimmedVariant(obj, "channel_id"),
                  trimmedVariant(obj, "id"),
                  trimmedVariant(channelObj, "id"),
                  trimmedVariant(channelObj, "channel_id")>>),
      channelLabel |->
        FirstOf(<<trimmedVariant(obj, "channelLabel"),
                  trimmedVariant(obj, "channel_label"),
                  trimmedVariant(obj, "label"),
                  trimmedVariant(channelObj, "label"),
                  trimmedVariant(channelObj, "channel_label"),
                  trimmedVariant(obj, "name")>>),
      raw |-> raw,
      value |-> value,
      unit |->
        FirstOf(<<trimmedVariant(obj, "unit"),
                  trimmedVariant(channelObj, "unit"),
                  trimmedVariant(obj, "channel_unit"),
                  trimmedVariant(channelObj, "channel_unit")>>),
      mac |->
        FirstOf(<<trimmedVariant(obj, "mac"),
                  trimmedVariant(obj, "source_mac"),
                  mac,
                  trimmedVariant(channelObj, "mac")>>),
      hostname |->
        FirstOf(<<trimmedVariant(obj, "hostname"),
                  trimmedVariant(obj, "source_hostname"),
                  hostname,
                  trimmedVariant(channelObj, "hostname")>>),
      ip |->
        FirstOf(<<trimmedVariant(obj, "ip"),
                  trimmedVariant(obj, "source_ip"),
                  ipStr,
                  trimmedVariant(channelObj, "ip")>>)]

\* applyRemoteValue reaches the call of updateRemoteValue
Forwards(payload, mac, hostname, ipStr) ==
  /\ PayloadIsObject(payload)
  /\ LET a == RemoteArgs(payload, mac, hostname, ipStr)
     IN hasText(a.channelId) \/ hasText(a.channelLabel)

\* The registry as the handler sees it: the table and what is recorded of
\* its updates.
RegistryAfter(reg, a, nowMs) ==
  LET counted == UpdatedSet(reg.table, a)
  IN [table |-> UpdatedTable(reg.table, a, nowMs),
      counted |-> reg.counted \cup counted,
      data |-> IF isFiniteNumber(a.raw) \/ isFiniteNumber(a.value)
               THEN reg.data \cup counted ELSE reg.data,
      last |-> SampleAfter(reg.last, reg.table, a, nowMs)]

\* One call of applyRemoteValue.  h = [reg, updated, attempts, replies] is
\* the state of handleIncomingPacket: the registry, the local variable
\* `updated`, the calls of applyRemoteValue made so far, the datagrams sent.
\* a holds the arguments extracted from the payload.
ApplyArgs(h, origin, isObject, a, nowMs) ==
  LET forwards == isObject /\ (hasText(a.channelId) \/ hasText(a.channelLabel))
      n == IF forwards THEN updateRemoteValue(h.reg.table, a) ELSE 0
  IN [h EXCEPT
        !.reg = IF forwards THEN RegistryAfter(h.reg, a, nowMs) ELSE @,
        !.updated = @ + n,
        !.attempts = Append(@, [origin |-> origin, forwarded |-> forwards,
                                 args |-> a, updated |-> n])]

\* (the state of the handler and the arguments are evaluated once)
applyRemoteValue(h, origin, payload, mac, hostname, ipStr, nowMs) ==
  CHOOSE r \in {ApplyArgs(hv, origin, PayloadIsObject(payload), a, nowMs) :
                  hv \in {h},
                  a \in {RemoteArgs(payload, mac, hostname, ipStr)}} : TRUE

\* ------------------------------------------------------------------------
\* UdpService: the inbound handler.  A datagram is [json, size, ip, port]:
\* the document its text stands for (Malformed when it is not JSON), its
\* length in bytes, and the sender's address and port.
\* ------------------------------------------------------------------------
Malformed == [malformed |-> TRUE]

\* size of buf in loop() and in discoverPeers()
loopBufSize == 384
scanBufSize == 512

\* deserializeJson() of the bytes read into a buffer of bufSize bytes: a
\* text cut short does not parse
Deserialize(d, bufSize) == IF d.size > bufSize - 1 THEN Malformed ELSE d.json

\* doc["cmd"] | doc["type"] | ""
CmdOf(doc) ==
  IF ContainsKey(doc, "cmd") THEN doc.cmd
  ELSE IF ContainsKey(doc, "type") THEN doc.type
  ELSE ""

\* WiFi.macAddress(), WiFi.hostname(), WiFi.localIP().toString()
localMac == <<"M", "0">>
localHostname == <<"m", "l">>
localIp == <<"1", "0", ".", "9">>
broadcastIp == <<"2", "5", "5">>

appendLocalInputs_All(table) == describeChannels(table)

\* the entries of describeChannels() that are not of udp-in origin
appendLocalInputs(table) ==
  LET IsLocal(entry) == entry.origin # sTypeUdpIn
  IN SelectSeq(describeChannels(table), IsLocal)

\* the datagram sendDiscoveryReply(ip, port) sends
sendDiscoveryReply(table, ip, port, rxPort, txPort) ==
  [ip |-> ip, port |-> port,
   msg |-> [type |-> "discover_reply", mac |-> localMac,
            hostname |-> localHostname, ip |-> localIp,
            rx_port |-> rxPort, tx_port |-> txPort,
            inputs |-> appendLocalInputs(table)]]

\* doc["values"], else doc["channels"], as an array
HasValuesArray(doc) == ContainsKey(doc, "values") \/ ContainsKey(doc, "channels")

ValuesArray(doc) ==
  IF ContainsKey(doc, "values") THEN doc.values
  ELSE IF ContainsKey(doc, "channels") THEN doc.channels
  ELSE <<>>

\* the for loop over the entries of the array, from entry n on
RECURSIVE ApplyElements(_, _, _, _, _, _, _)
ApplyElements(h, arr, n, mac, hostname, ipStr, nowMs) ==
  IF n > Len(arr) THEN h
  ELSE ApplyElements(applyRemoteValue(h, "element", arr[n], mac, hostname,
                                      ipStr, nowMs),
                     arr, n + 1, mac, hostname, ipStr, nowMs)

\* the branch of handleIncomingPacket for "values" and "snapshot"
ChannelFallback(h, doc, mac, hostname, ipStr, nowMs) ==
  IF h.updated = 0 /\ IsObject(NestedChannel(doc))
  THEN applyRemoteValue(h, "channel", NestedChannel(doc), mac, hostname, ipStr,
                        nowMs)
  ELSE h

MessageFallback(h, doc, mac, hostname, ipStr, nowMs) ==
  IF h.updated = 0 /\ ContainsKey(doc, "id")
  THEN applyRemoteValue(h, "message", doc, mac, hostname, ipStr, nowMs)
  ELSE h

ApplyValues(h, doc, mac, hostname, ipStr, nowMs) ==
  MessageFallback(
    ChannelFallback(
      ApplyElements(h, ValuesArray(doc), 1, mac, hostname, ipStr, nowMs),
      doc, mac, hostname, ipStr, nowMs),
    doc, mac, hostname, ipStr, nowMs)

handleIncomingPacket_ApplyUnknown(reg, doc, ip, port, rxPort, txPort, nowMs) ==
  LET h == [reg |-> reg, updated |-> 0, attempts |-> <<>>, replies |-> <<>>]
      cmd == CmdOf(doc)
      sourceMac == FirstOf(<<trimmedVariant(doc, "mac"),
                             trimmedVariant(doc, "source_mac")>>)
      sourceHostname == FirstOf(<<trimmedVariant(doc, "hostname"),
                                  trimmedVariant(doc, "source")>>)
      sourceIp == FirstOf(<<trimmedVariant(doc, "ip"), ip>>)
  IN IF ContainsKey(doc, "malformed") THEN h
     ELSE IF cmd = "" THEN h
     ELSE IF cmd = "discover" \/ cmd = "list_inputs"
          THEN [h EXCEPT !.replies =
                  <<sendDiscoveryReply(reg.table, ip, port, rxPort, txPort)>>]
     ELSE IF cmd = "values" \/ cmd = "snapshot"
          THEN ApplyValues(h, doc, sourceMac, sourceHostname, sourceIp, nowMs)
     ELSE applyRemoteValue(h, "message", doc, sourceMac, sourceHostname,
                           sourceIp, nowMs)

\* handleIncomingPacket on the parsed document doc: the registry after the
\* call, the calls of applyRemoteValue it made and the datagrams it sent
handleIncomingPacket(reg, doc, ip, port, rxPort, txPort, nowMs) ==
  LET h == [reg |-> reg, updated |-> 0, attempts |-> <<>>, replies |-> <<>>]
      cmd == CmdOf(doc)
      sourceMac == FirstOf(<<trimmedVariant(doc, "mac"),
                             trimmedVariant(doc, "source_mac")>>)
      sourceHostname == FirstOf(<<trimmedVariant(doc, "hostname"),
                                  trimmedVariant(doc, "source")>>)
      sourceIp == FirstOf(<<trimmedVariant(doc, "ip"), ip>>)
  IN IF ContainsKey(doc, "malformed") THEN h
     ELSE IF cmd = "" THEN h
     ELSE IF cmd = "discover" \/ cmd = "list_inputs"
          THEN [h EXCEPT !.replies =
                  <<sendDiscoveryReply(reg.table, ip, port, rxPort, txPort)>>]
     ELSE IF cmd = "value" \/ cmd = "channel_value"
          THEN applyRemoteValue(h, "message", doc, sourceMac, sourceHostname,
                                sourceIp, nowMs)
     ELSE IF cmd = "values" \/ cmd = "snapshot"
          THEN ApplyValues(h, doc, sourceMac, sourceHostname, sourceIp, nowMs)
     ELSE h

\* ------------------------------------------------------------------------
\* UdpService: discoverPeers.  A device is the object stored in "devices".
\* ------------------------------------------------------------------------
\* reply["type"] | reply["cmd"] | ""
TypeOf(doc) ==
  IF ContainsKey(doc, "type") THEN doc.type
  ELSE IF ContainsKey(doc, "cmd") THEN doc.cmd
  ELSE ""

\* one advertised input, normalised to id/type/index/unit/k/b
NormalInput(src) ==
  [id |-> OrDefault(src, "id", <<>>), type |-> OrDefault(src, "type", <<>>),
   index |-> OrDefault(src, "index", 0), unit |-> OrDefault(src, "unit", <<>>),
   k |-> OrDefault(src, "k", 0), b |-> OrDefault(src, "b", 0)]

NormalInputs(inputs) ==
  LET objects == SelectSeq(inputs, IsObject)
  IN [n \in 1..Len(objects) |-> NormalInput(objects[n])]

DeviceOf(reply, senderIp, rxPort, txPort, elapsed) ==
  [mac |-> OrDefault(reply, "mac", <<>>),
   hostname |-> OrDefault(reply, "hostname", <<>>),
   ip |-> OrDefault(reply, "ip", senderIp),
   rx_port |-> OrDefault(reply, "rx_port", rxPort),
   tx_port |-> OrDefault(reply, "tx_port", txPort),
   inputs |-> NormalInputs(OrDefault(reply, "inputs", <<>>)),
   lastSeenMs |-> elapsed]

\* index of the first device recorded with this mac, 0 when there is none
FindDevice(devices, mac) ==
  IF Len(mac) > 0
     /\ \E i \in 1..Len(devices) : equalsIgnoreCase(mac, devices[i].mac)
  THEN CHOOSE i \in 1..Len(devices) :
         /\ equalsIgnoreCase(mac, devices[i].mac)
         /\ \A j \in 1..(i - 1) : ~equalsIgnoreCase(mac, devices[j].mac)
  ELSE 0

\* variant: every reply adds an entry
MergeDevice_Append(devices, dev) == Append(devices, dev)

\* the device list after a discover_reply
MergeDevice(devices, dev) ==
  LET i == FindDevice(devices, dev.mac)
  IN IF i > 0 THEN [devices EXCEPT ![i] = dev] ELSE Append(devices, dev)

\* ------------------------------------------------------------------------
\* ConfigStore.  An entry is [area, doc, loaded]; the document of the "io"
\* area is a [shape, items] record as above, the documents of the other
\* areas are JSON objects or NullDoc (file missing, unreadable or empty).
\* ------------------------------------------------------------------------
kMaxAreas == 7

\* FileWriteService: the files written and what is written to them
WritePaths == {"/io.json", "/network.json"}
WriteContents == {<<>>, <<"{", "}">>}
EmptyTask == [path |-> "", contents |-> <<>>]
NoFile == [exists |-> FALSE, contents |-> <<>>]

defaultAreas ==
  <<"general", "network", "io", "dmm", "funcgen", "scope", "math">>

NullDoc == [shape |-> "other", items |-> <<>>]

\* doc.is<JsonObject>()
DocIsObject(doc) == IsObject(doc) /\ ("shape" \notin DOMAIN doc \/ doc.shape = "object")

\* the entries written by ConfigStore::begin(); files maps the areas that
\* have a readable file to its parsed content
ConfigLoad(files) ==
  [i \in 1..(IF Len(defaultAreas) < kMaxAreas THEN Len(defaultAreas)
             ELSE kMaxAreas) |->
     [area |-> defaultAreas[i],
      doc |-> IF defaultAreas[i] \in DOMAIN files THEN files[defaultAreas[i]]
              ELSE NullDoc,
      loaded |-> defaultAreas[i] \in DOMAIN files]]

\* index of the entry getConfig(area) returns a reference to
getConfigIndex(entries, area) ==
  IF \E i \in 1..Len(entries) : entries[i].area = area
  THEN CHOOSE i \in 1..Len(entries) :
         /\ entries[i].area = area
         /\ \A j \in 1..(i - 1) : entries[j].area # area
  ELSE IF Len(entries) < kMaxAreas THEN Len(entries) + 1
  ELSE 1

\* the entries after getConfig(area)
getConfigEntries(entries, area) ==
  IF \E i \in 1..Len(entries) : entries[i].area = area THEN entries
  ELSE IF Len(entries) < kMaxAreas
       THEN Append(entries, [area |-> area, doc |-> NullDoc, loaded |-> FALSE])
  ELSE entries

\* the document getConfig(area) returns
getConfig(entries, area) ==
  getConfigEntries(entries, area)[getConfigIndex(entries, area)].doc

\* UdpService::begin(): the ConfigStore entries and the fields of the service
\* after the call; bindOk is the outcome of m_udp.begin(m_rxPort)
UdpServiceBegin(entries, enabled, rxPort, txPort, bindOk) ==
  LET doc == getConfig(entries, "udp")
      isObject == DocIsObject(doc)
      enabled1 == IF isObject /\ ContainsKey(doc, "enabled") THEN doc.enabled
                  ELSE enabled
  IN [entries |-> getConfigEntries(entries, "udp"),
      enabled |-> enabled1,
      rxPort |-> IF isObject /\ ContainsKey(doc, "port") THEN doc.port
                 ELSE rxPort,
      txPort |-> IF isObject /\ ContainsKey(doc, "tx_port") THEN doc.tx_port
                 ELSE txPort,
      running |-> enabled1 /\ bindOk]

\* setupWiFi(): the value it leaves in g_wifiServicesEnabled
setupWiFi(entries, enabled) ==
  LET net == getConfig(entries, "network")
      mode == OrDefault(net, "mode", "ap")
  IN IF mode = "off" \/ mode = "disabled" THEN FALSE ELSE enabled

\* ------------------------------------------------------------------------
\* Inputs: configuration documents
\* ------------------------------------------------------------------------
sAA == <<"A", "A">>
saa == <<"a", "a">>
sBB == <<"B", "B">>
sIp1 == <<"1", "0", ".", "1">>
sIp2 == <<"1", "0", ".", "2">>
sHost == <<"l", "a", "b">>
sT1 == <<"T", "1">>
st1 == <<"t", "1">>

\* udp-in channel without a remote descriptor (type in upper case)
ChPlain == [id |-> <<" ", "T", "1">>, type |-> <<"U", "D", "P">>]

\* descriptor that names only a mac
ChMacOnly ==
  [id |-> <<"r", "1">>, type |-> sTypeUdpIn,
   remote |-> [mac |-> sAA, channelId |-> sT1]]

\* descriptor that names a mac and an ip, with distinct channel id and label
ChMacIp ==
  [id |-> <<"r", "2">>, type |-> sTypeUdpIn, k |-> 2, b |-> 1, unit |-> <<>>,
   remote |-> [source_mac |-> sAA, ip |-> sIp1, channel_id |-> <<"b">>,
               channelLabel |-> <<"L">>]]

\* descriptor that names no host at all
ChNoHost ==
  [id |-> <<"r", "3">>, type |-> sTypeUdpIn, remote |-> [channel |-> st1]]

ChA0 == [id |-> <<"a">>, k |-> 3, b |-> 2]
ChAds == [id |-> <<"d">>, type |-> sTypeAds, index |-> 1, k |-> 2]
ChAdsHigh == [id |-> <<"d", "4">>, type |-> sTypeAds, index |-> 4]
ChOther == [id |-> <<"o">>, type |-> <<"x">>, b |-> 5]

\* entry n of the long list: the third entry is not an object, the last two
\* entries are udp-in channels, entries at even positions carry no id
LongEntry(n, len) ==
  IF n = 3 THEN NonObject
  ELSE IF n >= len - 1 THEN [id |-> <<"u">> \o DecStr(n), type |-> sTypeUdpIn,
                             remote |-> [channelId |-> sT1]]
  ELSE IF n % 2 = 0 THEN [k |-> 2]
  ELSE [id |-> <<"e">> \o DecStr(n), b |-> n]

LongList(len) == [n \in 1..len |-> LongEntry(n, len)]

DocPlain == [shape |-> "array", items |-> <<ChPlain>>]
DocMacOnly == [shape |-> "array", items |-> <<ChMacOnly>>]
DocMacIp == [shape |-> "object", items |-> <<ChMacIp>>]
DocNoHost == [shape |-> "array", items |-> <<ChNoHost>>]
DocLocal ==
  [shape |-> "array", items |-> <<ChA0, NonObject, ChAds, ChAdsHigh, ChOther>>]
DocDuplicate ==
  [shape |-> "array", items |-> <<[id |-> sT1, k |-> 3], ChPlain>>]
DocOther == [shape |-> "other", items |-> <<>>]
\* an object that holds its list under another key than "channels"
DocMisnamed == [shape |-> "other", items |-> <<ChA0, ChPlain>>]
DocNoConfig == [shape |-> "noconfig", items |-> <<>>]

\* a local channel, a udp-in channel and a channel of another type
DocNet == [shape |-> "array", items |-> <<ChA0, ChPlain, ChOther>>]

\* the files of the configuration directory at boot: general.json switches
\* the service off, or is missing, or network.json switches the radio off
BootFiles ==
  {[general |-> [enabled |-> FALSE], io |-> DocNet],
   [io |-> DocNet],
   [general |-> [port |-> 7], network |-> [mode |-> "off"], io |-> DocNet]}

LongDocs ==
  {[shape |-> "array", items |-> LongList(len)] :
     len \in (MaxDocLen - 2)..MaxDocLen}

\* documents with one udp-in channel each, one per kind of descriptor
MatchDocs == {DocPlain, DocMacOnly, DocMacIp, DocNoHost}

CacheDocs == {DocPlain, DocMacIp, DocDuplicate}

ReadDocs == {DocLocal, DocDuplicate, DocMacIp}

LoadDocs == LongDocs \cup {DocLocal, DocOther, DocMisnamed, DocNoConfig}

\* ------------------------------------------------------------------------
\* Inputs: arguments of updateRemoteValue
\* ------------------------------------------------------------------------
Senders ==
  {[mac |-> sAA, ip |-> sIp2, hostname |-> <<>>],
   [mac |-> <<" ", "a", "a">>, ip |-> sIp1, hostname |-> <<>>],
   [mac |-> sBB, ip |-> sIp1, hostname |-> <<>>],
   [mac |-> sBB, ip |-> sIp2, hostname |-> sHost],
   [mac |-> <<>>, ip |-> <<>>, hostname |-> <<>>]}

Names ==
  {[channelId |-> sT1, channelLabel |-> <<>>],
   [channelId |-> <<"t", "1", " ">>, channelLabel |-> <<"x">>],
   [channelId |-> <<>>, channelLabel |-> st1],
   [channelId |-> <<"l">>, channelLabel |-> <<>>],
   [channelId |-> <<"x">>, channelLabel |-> <<"B">>],
   [channelId |-> <<"x">>, channelLabel |-> <<>>]}

Samples ==
  {[raw |-> Fin(3), value |-> NaN, unit |-> <<>>],
   [raw |-> NaN, value |-> Fin(7), unit |-> <<"m", "V">>],
   [raw |-> Fin(4), value |-> Inf, unit |-> <<>>],
   [raw |-> NaN, value |-> NaN, unit |-> <<>>]}

MakeArgs(s, n, d) ==
  [mac |-> s.mac, ip |-> s.ip, hostname |-> s.hostname,
   channelId |-> n.channelId, channelLabel |-> n.channelLabel,
   raw |-> d.raw, value |-> d.value, unit |-> d.unit]

UpdateArgs == {MakeArgs(s, n, d) : s \in Senders, n \in Names, d \in Samples}

\* one sender, three names (two of them match a channel of CacheDocs)
FewArgs ==
  {MakeArgs([mac |-> sAA, ip |-> sIp2, hostname |-> <<>>],
            [channelId |-> n, channelLabel |-> <<>>], d) :
     n \in {sT1, <<"l">>, <<"x">>}, d \in Samples}

\* the arguments of FewArgs, and updates for the label "L" and the id "T1"
\* from a sender that no configured descriptor names
FrameArgs ==
  FewArgs \cup
  {MakeArgs([mac |-> sBB, ip |-> sIp2, hostname |-> sHost],
            [channelId |-> <<"x">>, channelLabel |-> n],
            [raw |-> Fin(4), value |-> Fin(7), unit |-> <<>>]) :
     n \in {<<"l">>, sT1}}

\* ------------------------------------------------------------------------
\* Inputs: datagrams
\* ------------------------------------------------------------------------
Datagram(json, size, ip, port) ==
  [json |-> json, size |-> size, ip |-> ip, port |-> port]

DgGarbage == Datagram(Malformed, 5, sIp2, 4000)
DgHeartbeat == Datagram([ts |-> 5, msg |-> "heartbeat"], 30, sIp2, 50001)
DgUnknown ==
  Datagram([cmd |-> "reboot", id |-> sT1, raw |-> Fin(9)], 40, sIp2, 4000)
DgReply ==
  Datagram([type |-> "discover_reply", mac |-> sBB, hostname |-> sHost,
            id |-> sT1, value |-> Fin(9),
            inputs |-> <<[id |-> <<"a">>, type |-> sTypeA0], NonObject>>],
           90, sIp2, 50000)
DgDiscover == Datagram([cmd |-> "discover", mac |-> sBB], 30, sIp2, 50001)
DgListInputs == Datagram([type |-> "list_inputs"], 22, sIp1, 4000)
DgValue ==
  Datagram([cmd |-> "value", id |-> sT1, raw |-> Fin(3)], 40, sIp2, 4000)
\* a value message longer than the buffer of loop()
DgLongValue ==
  Datagram([cmd |-> "channel_value", id |-> sT1, value |-> Fin(8)], 400, sIp2,
           4000)

BootDatagrams == {DgValue, DgDiscover}

\* discover_reply datagrams: a second one from the device of DgReply, with
\* its mac in lower case and other fields; one from another device; one
\* that names no mac
DgReplyLower ==
  Datagram([cmd |-> "discover_reply", mac |-> <<"b", "b">>,
            hostname |-> <<"h", "2">>, ip |-> <<"1", "0", ".", "7">>,
            rx_port |-> 7, tx_port |-> 8], 80, sIp2, 50000)
DgReplyOther ==
  Datagram([type |-> "discover_reply", mac |-> sAA,
            inputs |-> <<[id |-> <<"d">>, type |-> sTypeAds, index |-> 1,
                          k |-> 2]>>], 85, sIp1, 50000)
MergeDatagrams == {DgReply, DgReplyLower, DgReplyOther}
MergeTimeouts == {20}

\* the largest unsigned long
ULongMax == [hi |-> HalfModulus - 1, lo |-> HalfModulus - 1]
TimeoutValues == {ULong(0), ULong(10), ULongMax}

\* values and snapshot messages: an array whose first entry names the
\* channel T1; an array that names no configured channel, beside a nested
\* channel object; an empty array in a message that carries an id; no array
DgValuesHit ==
  Datagram([cmd |-> "values",
            values |-> <<[id |-> sT1, raw |-> Fin(3)], NonObject,
                         [id |-> <<"z">>, raw |-> Fin(4)]>>,
            channel |-> [id |-> sT1, raw |-> Fin(6)],
            id |-> sT1, value |-> Fin(5)], 150, sIp2, 4000)
DgValuesMiss ==
  Datagram([cmd |-> "values",
            values |-> <<[id |-> <<"z">>, raw |-> Fin(4)]>>,
            channel |-> [id |-> sT1, raw |-> Fin(6)]], 90, sIp2, 4000)
DgSnapshotEmpty ==
  Datagram([type |-> "snapshot", channels |-> <<>>, id |-> sT1,
            value |-> Fin(7)], 60, sIp2, 4000)
DgSnapshotChannel ==
  Datagram([cmd |-> "snapshot", channel |-> [id |-> sT1, raw |-> Fin(6)],
            id |-> sT1, value |-> Fin(5)], 80, sIp2, 4000)

\* no array, a nested channel object that names no configured channel, and
\* an id at the top level
DgValuesNested ==
  Datagram([cmd |-> "values", channel |-> [id |-> <<"z">>, raw |-> Fin(6)],
            id |-> sT1, raw |-> Fin(3)], 70, sIp2, 4000)

\* messages that name their sender: every entry of the array in its own
\* way, under a blank ip, or not at all; the message under the source_*
\* aliases only; a value message under source_ip and source_hostname
DgSenderElements ==
  Datagram([cmd |-> "values", mac |-> sBB, hostname |-> sHost, ip |-> sIp1,
            values |-> <<[id |-> <<"b">>, raw |-> Fin(3), source_ip |-> sIp1,
                          mac |-> sAA],
                         [id |-> sT1, raw |-> Fin(4), ip |-> <<" ">>,
                          source_hostname |-> <<"h", "2">>],
                         [id |-> sT1, raw |-> Fin(5), source_mac |-> sAA,
                          ip |-> <<"1", "0", ".", "3">>]>>],
           200, sIp2, 4000)
DgSenderSource ==
  Datagram([cmd |-> "values", source_mac |-> sAA, source |-> sHost,
            source_ip |-> sIp1,
            values |-> <<[id |-> <<"b">>, raw |-> Fin(6)]>>], 120, sIp2, 4000)
DgSenderValue ==
  Datagram([cmd |-> "value", id |-> <<"b">>, raw |-> Fin(7),
            source_ip |-> sIp1, source_hostname |-> sHost], 90, sIp2, 4000)

SenderDatagrams == {DgSenderElements, DgSenderSource, DgSenderValue}

\* a udp-in channel that accepts any sender and one whose descriptor names
\* a mac and an ip
DocSender == [shape |-> "array", items |-> <<ChPlain, ChMacIp>>]

ValuesDatagrams ==
  {DgValuesHit, DgValuesMiss, DgSnapshotEmpty, DgSnapshotChannel,
   DgValuesNested}

\* ids asked of readRaw / convert / readValue
QueryIds ==
  {sT1, st1, <<"r", "1">>, <<"r", "2">>, <<"a">>, <<"d">>, <<"d", "4">>,
   <<"o">>, <<"c", "h", "2">>, <<"z">>}
  \cup {<<"u">> \o DecStr(n) : n \in (MaxDocLen - 3)..MaxDocLen}

RawInputs == {0, 3}

\* what the hardware delivers during one call
HwInputs == [a0 : {0, 5}, ads : {9}, beginOk : BOOLEAN]

TimeSteps == {1000, 4000}

\* timeouts given to discoverPeers
ScanTimeouts == {0, 10}

\* ------------------------------------------------------------------------
\* State
\* ------------------------------------------------------------------------
VARIABLES
  m_channels,        \* live part of the channel table
  m_channelCount,    \* number of channels in the table
  m_ads,             \* TRUE when the ADS1115 object has been allocated
  m_adsInitialized,
  m_adsAttempted,
  millis,            \* the millisecond counter (unsigned long)
  ioDoc,             \* the "io" document read by the last begin()
  ret,               \* the last call, when it ran, what it returned or wrote
  everCounted,       \* channels counted by some update since the last begin()
  everData,          \* channels that accepted a finite raw or value since then
  lastSample,        \* per channel: time and samples of the accepted updates
  advances,          \* number of time steps taken
  m_entries,         \* ConfigStore: live part of the area table
  m_count,           \* ConfigStore: number of areas in the table
  m_enabled,         \* UdpService
  m_running,
  m_rxPort,
  m_txPort,
  m_lastSend,        \* time of the last heartbeat (unsigned long)
  lastBeat,          \* the last heartbeat broadcast: its time, whether it
                     \* came more than two periods after the one before
  rxQueue,           \* datagrams received by the socket and not yet read
  scan,              \* position of discoverPeers() and its device list
  phase,             \* main: "constructed", then "running" once setup() returned
  g_wifiServicesEnabled,
  fileWriteService,  \* FileWriteService: m_tasks, m_head, m_tail, m_count, m_busy
  littleFS,          \* the content of each file of the file system
  writeLog           \* the requests enqueue() accepted and those loop() attempted

vars ==
  <<m_channels, m_channelCount, m_ads, m_adsInitialized, m_adsAttempted,
    millis, ioDoc, ret, everCounted, everData, lastSample, advances,
    m_entries, m_count, m_enabled, m_running, m_rxPort, m_txPort, m_lastSend, lastBeat,
    rxQueue, scan, phase, g_wifiServicesEnabled, fileWriteService,
    littleFS, writeLog>>

tableVars ==
  <<m_channels, m_channelCount, ioDoc, everCounted, everData, lastSample>>
adsVars == <<m_ads, m_adsInitialized, m_adsAttempted>>
clockVars == <<millis, advances>>
configVars == <<m_entries, m_count>>
udpVars ==
  <<m_enabled, m_running, m_rxPort, m_txPort, m_lastSend, lastBeat, rxQueue, scan>>
mainVars == <<phase, g_wifiServicesEnabled>>
fileVars == <<fileWriteService, littleFS, writeLog>>
serviceVars == <<configVars, udpVars, mainVars, fileVars>>

AdsRec ==
  [alloc |-> m_ads, attempted |-> m_adsAttempted,
   initialized |-> m_adsInitialized]

SetAds(rec) ==
  /\ m_ads' = rec.alloc
  /\ m_adsAttempted' = rec.attempted
  /\ m_adsInitialized' = rec.initialized

\* state after construction
Init ==
  /\ m_channels = <<>>
  /\ m_channelCount = 0
  /\ m_ads = FALSE
  /\ m_adsInitialized = FALSE
  /\ m_adsAttempted = FALSE
  /\ millis = ULong(0)
  /\ ioDoc = DocNoConfig
  /\ ret = [op |-> "none"]
  /\ everCounted = {}
  /\ everData = {}
  /\ lastSample = <<>>
  /\ advances = 0
  /\ m_entries = <<>>
  /\ m_count = 0
  /\ m_enabled = TRUE
  /\ m_running = FALSE
  /\ m_rxPort = defaultRxPort
  /\ m_txPort = defaultTxPort
  /\ m_lastSend = ULong(0)
  /\ lastBeat = [sent |-> FALSE, at |-> ULong(0), late |-> FALSE]
  /\ rxQueue = <<>>
  /\ scan = [active |-> FALSE]
  /\ phase = "constructed"
  /\ g_wifiServicesEnabled = TRUE
  /\ fileWriteService =
       [m_tasks |-> [i \in 1..kMaxQueueLength |-> EmptyTask], m_head |-> 0,
        m_tail |-> 0, m_count |-> 0, m_busy |-> FALSE]
  /\ littleFS = [path \in WritePaths |-> NoFile]
  /\ writeLog = [accepted |-> <<>>, attempted |-> <<>>]

\* ------------------------------------------------------------------------
\* Operations
\* ------------------------------------------------------------------------
begin(doc, beginOk) ==
  LET table == LoadTable(doc)
  IN /\ m_channels' = table
     /\ m_channelCount' = Len(table)
     /\ ioDoc' = doc
     /\ SetAds(IF NeedAds(table) THEN ensureAdsReady(AdsRec, beginOk) ELSE AdsRec)
     /\ everCounted' = {}
     /\ everData' = {}
     /\ lastSample' = [n \in 1..Len(table) |-> NoSample]
     /\ ret' = [op |-> "begin", previous |-> m_channelCount]
     /\ UNCHANGED <<clockVars, serviceVars>>

Begin(docs) == \E doc \in docs, beginOk \in BOOLEAN : begin(doc, beginOk)

UpdateRemoteValueCall(a) ==
  LET counted == UpdatedSet(m_channels, a)
  IN /\ m_channels' = UpdatedTable(m_channels, a, millis)
     /\ ret' = [op |-> "updateRemoteValue",
                updated |-> updateRemoteValue(m_channels, a)]
     /\ everCounted' = everCounted \cup counted
     /\ everData' = IF isFiniteNumber(a.raw) \/ isFiniteNumber(a.value)
                    THEN everData \cup counted ELSE everData
     /\ lastSample' = SampleAfter(lastSample, m_channels, a, millis)
     /\ UNCHANGED <<m_channelCount, ioDoc, adsVars, clockVars, serviceVars>>

UpdateRemoteValue(args) == \E a \in args : UpdateRemoteValueCall(a)

SnapshotCall_Touch(hw) ==
  /\ ret' = [op |-> "snapshot", now |-> millis,
             channels |-> snapshot(m_channels, AdsRec, millis, hw)]
  /\ SetAds(SnapshotAds(m_channels, AdsRec, Len(m_channels) + 1, hw))
  /\ m_channels' = [n \in 1..Len(m_channels) |->
                      [m_channels[n] EXCEPT !.remoteLastUpdate = millis]]
  /\ UNCHANGED <<m_channelCount, ioDoc, everCounted, everData, lastSample,
                 clockVars, serviceVars>>

SnapshotCall(hw) ==
  /\ ret' = [op |-> "snapshot", now |-> millis,
             channels |-> snapshot(m_channels, AdsRec, millis, hw)]
  /\ SetAds(SnapshotAds(m_channels, AdsRec, Len(m_channels) + 1, hw))
  /\ UNCHANGED <<tableVars, clockVars, serviceVars>>

Snapshot == \E hw \in HwInputs : SnapshotCall(hw)

ReadRawCall(id, hw) ==
  /\ ret' = [op |-> "readRaw", id |-> id, at |-> millis,
             value |-> readRaw(m_channels, AdsRec, id, hw)]
  /\ SetAds(readRawAds(m_channels, AdsRec, id, hw))
  /\ UNCHANGED <<tableVars, clockVars, serviceVars>>

ReadRaw == \E id \in QueryIds, hw \in HwInputs : ReadRawCall(id, hw)

ConvertCall(id, raw) ==
  /\ ret' = [op |-> "convert", id |-> id, raw |-> raw,
             value |-> convert(m_channels, id, raw)]
  /\ UNCHANGED <<tableVars, adsVars, clockVars, serviceVars>>

Convert == \E id \in QueryIds, raw \in RawInputs : ConvertCall(id, raw)

ReadValueCall(id, hw) ==
  /\ ret' = [op |-> "readValue", id |-> id,
             raw |-> readRaw(m_channels, AdsRec, id, hw),
             value |-> readValue(m_channels, AdsRec, id, hw)]
  /\ SetAds(readRawAds(m_channels, AdsRec, id, hw))
  /\ UNCHANGED <<tableVars, clockVars, serviceVars>>

ReadValue == \E id \in QueryIds, hw \in HwInputs : ReadValueCall(id, hw)

DescribeChannels ==
  /\ ret' = [op |-> "describeChannels", channels |-> describeChannels(m_channels)]
  /\ UNCHANGED <<tableVars, adsVars, clockVars, serviceVars>>

DescribeHardwareCall(beginOk) ==
  LET ads == ensureAdsReady(AdsRec, beginOk)
  IN /\ ret' = [op |-> "describeHardware", adsAvailable |-> ads.initialized]
     /\ SetAds(ads)
     /\ UNCHANGED <<tableVars, clockVars, serviceVars>>

DescribeHardware == \E beginOk \in BOOLEAN : DescribeHardwareCall(beginOk)

\* the registry as the inbound handler receives it and leaves it
Registry ==
  [table |-> m_channels, counted |-> everCounted, data |-> everData,
   last |-> lastSample]

SetRegistry(reg) ==
  /\ m_channels' = reg.table
  /\ everCounted' = reg.counted
  /\ everData' = reg.data
  /\ lastSample' = reg.last

\* a datagram addressed to the receive port reaches the device
ArriveCall(d) ==
  /\ Len(rxQueue) < MaxQueue
  /\ rxQueue' = Append(rxQueue, d)
  /\ UNCHANGED <<tableVars, adsVars, clockVars, ret, configVars, mainVars,
                 fileVars, m_enabled, m_running, m_rxPort, m_txPort,
                 m_lastSend, lastBeat, scan>>

Arrive(datagrams) == \E d \in datagrams : ArriveCall(d)

\* setup() of main.cpp
SetupCall(fsOk, files, bindOk) ==
  LET entries == ConfigLoad(files)
      wifi == setupWiFi(entries, g_wifiServicesEnabled)
      udp == UdpServiceBegin(entries, m_enabled, m_rxPort, m_txPort, bindOk)
  IN /\ phase = "constructed"
     /\ phase' = "running"
     /\ ret' = [op |-> "setup", mounted |-> fsOk]
     /\ IF ~fsOk
        THEN UNCHANGED <<configVars, g_wifiServicesEnabled, m_enabled,
                         m_running, m_rxPort, m_txPort>>
        ELSE /\ g_wifiServicesEnabled' = wifi
             /\ IF wifi
                THEN /\ m_entries' = udp.entries
                     /\ m_count' = Len(udp.entries)
                     /\ m_enabled' = udp.enabled
                     /\ m_rxPort' = udp.rxPort
                     /\ m_txPort' = udp.txPort
                     /\ m_running' = udp.running
                ELSE /\ m_entries' = entries
                     /\ m_count' = Len(entries)
                     /\ UNCHANGED <<m_enabled, m_running, m_rxPort, m_txPort>>
     /\ UNCHANGED <<tableVars, adsVars, clockVars, fileVars, m_lastSend,
                    lastBeat, rxQueue, scan>>

Setup(inputs) ==
  \E fsOk \in BOOLEAN, files \in inputs, bindOk \in BOOLEAN :
    SetupCall(fsOk, files, bindOk)

NoPacket == [json |-> Malformed, size |-> 0, ip |-> <<>>, port |-> 0]

\* what the handler leaves when no datagram is handed to it
Idle ==
  [reg |-> Registry, updated |-> 0, attempts |-> <<>>, replies |-> <<>>,
   consumed |-> FALSE, packet |-> NoPacket]

\* the first datagram of the queue handed to the handler as the text of doc
ReceivedDoc(doc) ==
  [consumed |-> TRUE, packet |-> Head(rxQueue)] @@
  handleIncomingPacket(Registry, doc, Head(rxQueue).ip, Head(rxQueue).port,
                       m_rxPort, m_txPort, millis)

\* the first datagram of the queue read into a buffer of bufSize bytes and
\* handled, when handles holds
Received(handles, bufSize) ==
  IF handles
  THEN [consumed |-> TRUE, packet |-> Head(rxQueue)] @@
       handleIncomingPacket(Registry, Deserialize(Head(rxQueue), bufSize),
                            Head(rxQueue).ip, Head(rxQueue).port, m_rxPort,
                            m_txPort, millis)
  ELSE Idle

HeartbeatDue_Idle ==
  /\ m_running
  /\ Len(rxQueue) = 0
  /\ ~ULongGreater(ULong(heartbeatPeriod), ULongSub(millis, m_lastSend))

HeartbeatDue_AnyState ==
  ~ULongGreater(ULong(heartbeatPeriod), ULongSub(millis, m_lastSend))

\* the heartbeat of loop()
HeartbeatDue ==
  m_running /\ ~ULongGreater(ULong(heartbeatPeriod), ULongSub(millis, m_lastSend))

Heartbeat ==
  [ip |-> broadcastIp, port |-> m_txPort,
   msg |-> [ts |-> millis, msg |-> "heartbeat"]]

\* more than two heartbeat periods have passed since the last heartbeat
BeatIsLate ==
  /\ lastBeat.sent
  /\ ULongGreater(ULongSub(millis, lastBeat.at), ULong(2 * heartbeatPeriod))

LastSendAfter_CatchUp ==
  IF HeartbeatDue THEN ULongAdd(m_lastSend, ULong(heartbeatPeriod))
  ELSE m_lastSend

\* m_lastSend once the heartbeat check has run
LastSendAfter == IF HeartbeatDue THEN millis ELSE m_lastSend

\* variant: the tick empties the queue
LoopStep_Drain(h) ==
  /\ SetRegistry(h.reg)
  /\ rxQueue' = IF h.consumed THEN <<>> ELSE rxQueue
  /\ m_lastSend' = LastSendAfter
  /\ lastBeat' = IF HeartbeatDue
                 THEN [sent |-> TRUE, at |-> millis, late |-> BeatIsLate]
                 ELSE lastBeat
  /\ ret' = [op |-> "loop", running |-> m_running, consumed |-> h.consumed,
             packet |-> h.packet, attempts |-> h.attempts,
             replies |-> h.replies, heartbeat |-> HeartbeatDue,
             sent |-> h.replies \o
                      (IF HeartbeatDue THEN <<Heartbeat>> ELSE <<>>)]

\* loop() once the datagram, if any, has been handled with outcome h
LoopStep(h) ==
  /\ SetRegistry(h.reg)
  /\ rxQueue' = IF h.consumed THEN Tail(rxQueue) ELSE rxQueue
  /\ m_lastSend' = LastSendAfter
  /\ lastBeat' = IF HeartbeatDue
                 THEN [sent |-> TRUE, at |-> millis, late |-> BeatIsLate]
                 ELSE lastBeat
  /\ ret' = [op |-> "loop", running |-> m_running, consumed |-> h.consumed,
             packet |-> h.packet, attempts |-> h.attempts,
             replies |-> h.replies, heartbeat |-> HeartbeatDue,
             sent |-> h.replies \o
                      (IF HeartbeatDue THEN <<Heartbeat>> ELSE <<>>)]

\* UdpService::loop(), called by loop() of main.cpp
UdpLoop ==
  /\ phase = "running"
  /\ g_wifiServicesEnabled
  /\ ~scan.active
  /\ \E h \in {Received(m_running /\ Len(rxQueue) > 0, loopBufSize)} :
        LoopStep(h)
  /\ UNCHANGED <<m_channelCount, ioDoc, adsVars, clockVars, configVars,
                 mainVars, fileVars, m_enabled, m_running, m_rxPort, m_txPort,
                 scan>>

\* discoverPeers() up to its polling loop
DiscoverPeersStartAt(timeout) ==
  /\ phase = "running"
  /\ ~scan.active
  /\ IF ~m_running
     THEN /\ ret' = [op |-> "discoverPeers", returned |-> FALSE,
                     status |-> "udp_disabled", devices |-> <<>>,
                     timed |-> FALSE, elapsed_ms |-> ULong(0), sent |-> <<>>]
          /\ UNCHANGED scan
     ELSE /\ scan' = [active |-> TRUE, start |-> millis,
                      timeoutMs |-> timeout, devices |-> <<>>]
          /\ ret' = [op |-> "discoverStart",
                     sent |-> <<[ip |-> broadcastIp, port |-> m_rxPort,
                                 msg |-> [cmd |-> "discover",
                                          mac |-> localMac]]>>]
  /\ UNCHANGED <<tableVars, adsVars, clockVars, configVars, mainVars,
                 fileVars, m_enabled, m_running, m_rxPort, m_txPort,
                 m_lastSend, lastBeat, rxQueue>>

DiscoverPeersStartCall(timeoutMs) == DiscoverPeersStartAt(ULong(timeoutMs))

DiscoverPeersStart == \E timeoutMs \in ScanTimeouts : DiscoverPeersStartCall(timeoutMs)

DiscoverPeersStartOf(timeouts) ==
  \E timeoutMs \in timeouts : DiscoverPeersStartCall(timeoutMs)

\* variant: the loop ends as soon as the timeout is reached
TimedOut_AtTimeout(elapsed) == ~ULongGreater(scan.timeoutMs, elapsed)

\* the loop condition (elapsed = millis() - start) <= timeoutMs fails
TimedOut(elapsed) == ULongGreater(elapsed, scan.timeoutMs)

\* the polling loop of discoverPeers() has run out of time
ScanFinish(elapsed) ==
  /\ scan' = [active |-> FALSE]
  /\ ret' = [op |-> "discoverPeers", returned |-> Len(scan.devices) > 0,
             status |-> IF Len(scan.devices) > 0 THEN "ok" ELSE "no_devices",
             devices |-> scan.devices, timed |-> TRUE, elapsed_ms |-> elapsed,
             sent |-> <<>>]
  /\ UNCHANGED <<m_channels, everCounted, everData, lastSample, rxQueue,
                 clockVars>>

\* variant: the polling loop also does the periodic work of loop()
ScanIteration_Heartbeat(elapsed, reply, isReply, h) ==
  /\ (isReply \/ Len(rxQueue) = 0) => advances < MaxAdvances
  /\ SetRegistry(h.reg)
  /\ rxQueue' = IF Len(rxQueue) > 0 THEN Tail(rxQueue) ELSE rxQueue
  /\ scan' = IF isReply
             THEN [scan EXCEPT !.devices =
                     MergeDevice(@, DeviceOf(reply, Head(rxQueue).ip, m_rxPort,
                                             m_txPort, elapsed))]
             ELSE scan
  /\ millis' = IF isReply \/ Len(rxQueue) = 0
               THEN ULongAdd(millis, ULong(scanDelay)) ELSE millis
  /\ advances' = IF isReply \/ Len(rxQueue) = 0 THEN advances + 1 ELSE advances
  /\ ret' = [op |-> "discoverPoll", consumed |-> Len(rxQueue) > 0,
             packet |-> IF Len(rxQueue) > 0 THEN Head(rxQueue) ELSE NoPacket,
             isReply |-> isReply, attempts |-> h.attempts,
             replies |-> h.replies,
             sent |-> h.replies \o
                      (IF HeartbeatDue THEN <<Heartbeat>> ELSE <<>>)]

\* one iteration of the polling loop: reply is the parsed datagram, isReply
\* tells a discover_reply, h is the outcome of the handler for any other
\* datagram; delay(10) advances the clock by 10 ms
ScanIteration(elapsed, reply, isReply, h) ==
  /\ (isReply \/ Len(rxQueue) = 0) => advances < MaxAdvances
  /\ SetRegistry(h.reg)
  /\ rxQueue' = IF Len(rxQueue) > 0 THEN Tail(rxQueue) ELSE rxQueue
  /\ scan' = IF isReply
             THEN [scan EXCEPT !.devices =
                     MergeDevice(@, DeviceOf(reply, Head(rxQueue).ip, m_rxPort,
                                             m_txPort, elapsed))]
             ELSE scan
  /\ millis' = IF isReply \/ Len(rxQueue) = 0
               THEN ULongAdd(millis, ULong(scanDelay)) ELSE millis
  /\ advances' = IF isReply \/ Len(rxQueue) = 0 THEN advances + 1 ELSE advances
  /\ ret' = [op |-> "discoverPoll", consumed |-> Len(rxQueue) > 0,
             packet |-> IF Len(rxQueue) > 0 THEN Head(rxQueue) ELSE NoPacket,
             isReply |-> isReply, attempts |-> h.attempts,
             replies |-> h.replies, sent |-> h.replies]

\* variant: every datagram that parses counts as a reply
ScanReply_AnyType(reply) ==
  /\ Len(rxQueue) > 0
  /\ ~ContainsKey(reply, "malformed")

\* the datagram at the head of the queue is a discover_reply for the scan
ScanReply(reply) ==
  /\ Len(rxQueue) > 0
  /\ ~ContainsKey(reply, "malformed")
  /\ TypeOf(reply) = "discover_reply"

\* handleIncomingPacket(buf, len, ...) called from the polling loop: buf has
\* been parsed once already, by deserializeJson(reply, buf, len) on a
\* writable char array.  An ArduinoJson that parses such input in place
\* (version 6) has rewritten buf, and the handler's own deserializeJson
\* fails on it; one that copies its input (version 7) leaves buf as
\* received.  The sources do not fix the version: both outcomes are kept.
ScanHandled(reply) ==
  IF Len(rxQueue) > 0 /\ ~ScanReply(reply)
  THEN {ReceivedDoc(reply), ReceivedDoc(Malformed)}
  ELSE {Idle}

ScanPoll(elapsed, reply) ==
  IF TimedOut(elapsed) THEN ScanFinish(elapsed)
  ELSE \E h \in ScanHandled(reply) :
         ScanIteration(elapsed, reply, ScanReply(reply), h)

\* one evaluation of the loop condition of discoverPeers() and, when it
\* holds, one iteration
DiscoverPeersPoll ==
  /\ scan.active
  /\ ScanPoll(ULongSub(millis, scan.start),
              IF Len(rxQueue) > 0 THEN Deserialize(Head(rxQueue), scanBufSize)
              ELSE Malformed)
  /\ UNCHANGED <<m_channelCount, ioDoc, adsVars, configVars, mainVars,
                 fileVars, m_enabled, m_running, m_rxPort, m_txPort,
                 m_lastSend, lastBeat>>

\* time passes
AdvanceTime ==
  \E d \in TimeSteps :
    /\ advances < MaxAdvances
    /\ advances' = advances + 1
    /\ millis' = ULongAdd(millis, ULong(d))
    /\ UNCHANGED <<tableVars, adsVars, ret, serviceVars>>

\* ------------------------------------------------------------------------
\* FileWriteService
\* ------------------------------------------------------------------------
\* the task loop() pops next
HeadTask == fileWriteService.m_tasks[fileWriteService.m_head + 1]

\* FileWriteService::pending()
pending ==
  fileWriteService.m_count + (IF fileWriteService.m_busy THEN 1 ELSE 0)

\* the queued requests, oldest first: m_count slots of the ring from m_head
QueuedTasks(q) ==
  [i \in 1..q.m_count |->
     q.m_tasks[((q.m_head + i - 1) % kMaxQueueLength) + 1]]

\* variant: a full ring takes the request over the oldest one
EnqueueCall_Overwrite(path, contents) ==
  LET q == fileWriteService
      slots == [q.m_tasks EXCEPT ![q.m_tail + 1] =
                    [path |-> path, contents |-> contents]]
      full == q.m_count >= kMaxQueueLength
  IN /\ phase = "running"
     /\ g_wifiServicesEnabled
     /\ Len(writeLog.accepted) < MaxWrites
     /\ fileWriteService' =
          [q EXCEPT !.m_tasks = slots,
                    !.m_tail = (q.m_tail + 1) % kMaxQueueLength,
                    !.m_head = IF full THEN (q.m_head + 1) % kMaxQueueLength
                               ELSE q.m_head,
                    !.m_count = IF full THEN q.m_count ELSE q.m_count + 1]
     /\ writeLog' =
          [writeLog EXCEPT !.accepted =
              Append(@, [path |-> path, contents |-> contents])]
     /\ ret' = [op |-> "enqueue", accepted |-> TRUE, path |-> path,
                contents |-> contents, pending |-> pending + 1]
     /\ UNCHANGED <<tableVars, adsVars, clockVars, configVars, udpVars,
                    mainVars, littleFS>>

\* FileWriteService::enqueue(path, contents), called by the handlers of
\* WebApi
EnqueueCall(path, contents) ==
  LET q == fileWriteService
      slot == [path |-> path, contents |-> contents]
  IN /\ phase = "running"
     /\ g_wifiServicesEnabled
     /\ IF q.m_count >= kMaxQueueLength
        THEN /\ ret' = [op |-> "enqueue", accepted |-> FALSE, path |-> path,
                        contents |-> contents, pending |-> pending]
             /\ UNCHANGED <<fileWriteService, writeLog>>
        ELSE /\ Len(writeLog.accepted) < MaxWrites
             /\ fileWriteService' =
                  [q EXCEPT !.m_tasks = [q.m_tasks EXCEPT ![q.m_tail + 1] = slot],
                            !.m_tail = (q.m_tail + 1) % kMaxQueueLength,
                            !.m_count = q.m_count + 1]
             /\ writeLog' = [writeLog EXCEPT !.accepted = Append(@, slot)]
             /\ ret' = [op |-> "enqueue", accepted |-> TRUE, path |-> path,
                        contents |-> contents, pending |-> pending + 1]
     /\ UNCHANGED <<tableVars, adsVars, clockVars, configVars, udpVars,
                    mainVars, littleFS>>

Enqueue ==
  \E path \in WritePaths, contents \in WriteContents :
    EnqueueCall(path, contents)

\* the file system after loop() handled task: the temporary file could not
\* be opened, or written bytes of the contents went to it, and the rename
\* succeeded or not
FilesAfter(task, opened, written, renamed) ==
  IF ~opened \/ written # Len(task.contents) THEN littleFS
  ELSE IF ~renamed THEN [littleFS EXCEPT ![task.path] = NoFile]
  ELSE [littleFS EXCEPT ![task.path] =
           [exists |-> TRUE, contents |-> task.contents]]

WriteOutcome(task, opened, written, renamed) ==
  IF ~opened THEN "open_failed"
  ELSE IF written # Len(task.contents) THEN "short_write"
  ELSE IF ~renamed THEN "rename_failed"
  ELSE "complete"

\* variant: a task whose write failed stays at the head of the ring
FileLoopCall_Retry(opened, written, renamed) ==
  LET q == fileWriteService
      task == HeadTask
      outcome == WriteOutcome(task, opened, written, renamed)
      failed == outcome # "complete"
  IN /\ phase = "running"
     /\ ~q.m_busy
     /\ q.m_count > 0
     /\ fileWriteService' =
          IF failed THEN q
          ELSE [q EXCEPT !.m_head = (q.m_head + 1) % kMaxQueueLength,
                         !.m_count = q.m_count - 1]
     /\ littleFS' = FilesAfter(task, opened, written, renamed)
     /\ writeLog' = IF failed THEN writeLog
                    ELSE [writeLog EXCEPT !.attempted = Append(@, task)]
     /\ ret' = [op |-> "fileLoop", attempted |-> TRUE, task |-> task,
                outcome |-> outcome]
     /\ UNCHANGED <<tableVars, adsVars, clockVars, configVars, udpVars,
                    mainVars>>

\* FileWriteService::loop() with a task to pop: opened, written and renamed
\* are what LittleFS.open, File::print and LittleFS.rename return
FileLoopCall(opened, written, renamed) ==
  LET q == fileWriteService
      task == HeadTask
      outcome == WriteOutcome(task, opened, written, renamed)
  IN /\ phase = "running"
     /\ ~q.m_busy
     /\ q.m_count > 0
     /\ fileWriteService' =
          [q EXCEPT !.m_head = (q.m_head + 1) % kMaxQueueLength,
                    !.m_count = IF q.m_count > 0 THEN q.m_count - 1
                                ELSE q.m_count,
                    !.m_busy = FALSE]
     /\ littleFS' = FilesAfter(task, opened, written, renamed)
     /\ writeLog' = [writeLog EXCEPT !.attempted = Append(@, task)]
     /\ ret' = [op |-> "fileLoop", attempted |-> TRUE, task |-> task,
                outcome |-> outcome]
     /\ UNCHANGED <<tableVars, adsVars, clockVars, configVars, udpVars,
                    mainVars>>

\* FileWriteService::loop() with nothing to do
FileLoopIdle ==
  /\ phase = "running"
  /\ fileWriteService.m_busy \/ fileWriteService.m_count = 0
  /\ ret' = [op |-> "fileLoop", attempted |-> FALSE]
  /\ UNCHANGED <<tableVars, adsVars, clockVars, configVars, udpVars,
                 mainVars, fileVars>>

\* FileWriteService::loop(), called by loop() of main.cpp
FileLoop ==
  \/ FileLoopIdle
  \/ \E opened \in BOOLEAN, renamed \in BOOLEAN,
        written \in 0..Len(HeadTask.contents) :
          FileLoopCall(opened, written, renamed)

\* ------------------------------------------------------------------------
\* Specifications
\* ------------------------------------------------------------------------
\* matching: every kind of descriptor against every sender and name
BeginMatch == Begin(MatchDocs)
UpdateMatch == UpdateRemoteValue(UpdateArgs)
NextMatch == BeginMatch \/ UpdateMatch
SpecMatch == Init /\ [][NextMatch]_vars

\* remote cache, time and the read path of udp-in channels
BeginCache == Begin(CacheDocs)
UpdateCache == UpdateRemoteValue(FewArgs)
NextCache ==
  \/ BeginCache
  \/ UpdateCache
  \/ AdvanceTime
  \/ Snapshot
  \/ ReadRaw
SpecCache == Init /\ [][NextCache]_vars

\* updates of every kind of name, from two senders, over the cache tables
BeginFrame == Begin(CacheDocs)
UpdateFrame == UpdateRemoteValue(FrameArgs)
NextFrame ==
  \/ BeginFrame
  \/ UpdateFrame
  \/ AdvanceTime
  \/ DescribeChannels
SpecFrame == Init /\ [][NextFrame]_vars

\* local channels, calibration and the lazily initialised converter
BeginRead == Begin(ReadDocs)
UpdateRead == UpdateRemoteValue(FewArgs)
NextRead ==
  \/ BeginRead
  \/ UpdateRead
  \/ ReadRaw
  \/ Convert
  \/ ReadValue
  \/ Snapshot
  \/ DescribeHardware
SpecRead == Init /\ [][NextRead]_vars

\* configuration load and the table bound
BeginLoad == Begin(LoadDocs)
UpdateLoad == UpdateRemoteValue(FewArgs)
NextLoad ==
  \/ BeginLoad
  \/ UpdateLoad
  \/ ReadRaw
  \/ Convert
  \/ Snapshot
  \/ DescribeChannels
SpecLoad == Init /\ [][NextLoad]_vars

\* boot: setup() and the ticks of loop() that follow it
SetupBoot == Setup(BootFiles)
ArriveBoot == Arrive(BootDatagrams)
ServeSnapshot == phase = "running" /\ g_wifiServicesEnabled /\ Snapshot
NextBoot ==
  \/ SetupBoot
  \/ ArriveBoot
  \/ UdpLoop
  \/ ServeSnapshot
  \/ AdvanceTime
SpecBoot == Init /\ [][NextBoot]_vars

\* the registry is loaded while the device boots
BootBegin(docs) == phase = "constructed" /\ m_channelCount = 0 /\ Begin(docs)

\* datagrams arrive and time passes once setup() has returned
Receive(datagrams) == phase = "running" /\ Arrive(datagrams)
Elapse == phase = "running" /\ AdvanceTime

\* one heartbeat period passes
ElapsePeriod ==
  /\ phase = "running"
  /\ advances < MaxAdvances
  /\ advances' = advances + 1
  /\ millis' = ULongAdd(millis, ULong(heartbeatPeriod))
  /\ UNCHANGED <<tableVars, adsVars, ret, serviceVars>>

\* the protocol in ticks: datagrams of every kind over a loaded registry
UdpFiles ==
  {[io |-> DocNet], [general |-> [port |-> 7, tx_port |-> 8], io |-> DocNet]}
UdpDatagrams ==
  {DgGarbage, DgHeartbeat, DgUnknown, DgReply, DgDiscover, DgListInputs,
   DgValue, DgLongValue}
BeginUdp == BootBegin({DocNet})
SetupUdp == Setup(UdpFiles)
ReceiveUdp == Receive(UdpDatagrams)
NextUdp ==
  \/ BeginUdp
  \/ SetupUdp
  \/ ReceiveUdp
  \/ UdpLoop
  \/ ElapsePeriod
SpecUdp == Init /\ [][NextUdp]_vars

\* scans: the service bound or unbound after begin()
ScanDatagrams == {DgReply, DgDiscover}
BeginScan == BootBegin({DocNet})
ReceiveScan == Receive(ScanDatagrams)
NextScan ==
  \/ BeginScan
  \/ SetupBoot
  \/ ReceiveScan
  \/ UdpLoop
  \/ DiscoverPeersStart
  \/ DiscoverPeersPoll
  \/ Elapse
SpecScan == Init /\ [][NextScan]_vars

\* access to the registry: the inbound handler and the readers
AccessFiles == {[io |-> DocNet]}
AccessDatagrams == {DgValue, DgDiscover}
BeginAccess == BootBegin({DocNet})
SetupAccess == Setup(AccessFiles)
ReceiveAccess == Receive(AccessDatagrams)
AccessIds == {sT1, <<"a">>}
AccessHw == {[a0 |-> 5, ads |-> 9, beginOk |-> TRUE]}
ServeReadRaw ==
  phase = "running" /\ \E id \in AccessIds, hw \in AccessHw : ReadRawCall(id, hw)
ServeConvert ==
  phase = "running" /\ \E id \in AccessIds : ConvertCall(id, 3)
ServeReadValue ==
  phase = "running" /\ \E id \in AccessIds, hw \in AccessHw : ReadValueCall(id, hw)
ServeDescribeChannels == phase = "running" /\ DescribeChannels
ServeDescribeHardware == phase = "running" /\ DescribeHardwareCall(TRUE)
ServeTable == phase = "running" /\ \E hw \in AccessHw : SnapshotCall(hw)
NextAccess ==
  \/ BeginAccess
  \/ SetupAccess
  \/ ReceiveAccess
  \/ UdpLoop
  \/ ServeTable
  \/ ServeReadRaw
  \/ ServeConvert
  \/ ServeReadValue
  \/ ServeDescribeChannels
  \/ ServeDescribeHardware
  \/ Elapse
SpecAccess == Init /\ [][NextAccess]_vars

\* values and snapshot messages over a loaded registry
BeginValues == BootBegin({DocNet})
SetupValues == Setup(AccessFiles)
ReceiveValues == Receive(ValuesDatagrams)
NextValues ==
  \/ BeginValues
  \/ SetupValues
  \/ ReceiveValues
  \/ UdpLoop
  \/ Elapse
SpecValues == Init /\ [][NextValues]_vars

\* messages that name their sender, over a registry with a host filter
BeginSender == BootBegin({DocSender})
SetupSender == Setup(AccessFiles)
ReceiveSender == Receive(SenderDatagrams)
NextSender ==
  \/ BeginSender
  \/ SetupSender
  \/ ReceiveSender
  \/ UdpLoop
  \/ ElapsePeriod
SpecSender == Init /\ [][NextSender]_vars

\* value messages, short and long, taken by ticks and by discovery scans
EquivDatagrams == {DgValue, DgLongValue}
BeginEquiv == BootBegin({DocPlain})
ReceiveEquiv == Receive(EquivDatagrams)
NextEquiv ==
  \/ BeginEquiv
  \/ SetupAccess
  \/ ReceiveEquiv
  \/ UdpLoop
  \/ DiscoverPeersStart
  \/ DiscoverPeersPoll
  \/ Elapse
SpecEquiv == Init /\ [][NextEquiv]_vars

\* discovery scans of every length.  The polling loop runs without a
\* pause of its own accord, and the millisecond counter of the board keeps
\* counting while it does: both are weakly fair.
TimeoutDatagrams == {DgReply, DgGarbage, DgDiscover}
ReceiveTimeout == Receive(TimeoutDatagrams)
StartTimeout == \E timeout \in TimeoutValues : DiscoverPeersStartAt(timeout)
NextTimeout ==
  \/ SetupAccess
  \/ ReceiveTimeout
  \/ StartTimeout
  \/ DiscoverPeersPoll
  \/ Elapse
SpecTimeout ==
  /\ Init
  /\ [][NextTimeout]_vars
  /\ WF_vars(DiscoverPeersPoll)
  /\ WF_vars(Elapse)

\* a channel without descriptor and the updates the inbound handler can
\* pass on: the sender always has an ip (the transport address when the
\* message names none)
SynthDocs == {DocPlain, DocDuplicate}
SynthArgs ==
  {MakeArgs(s, n, [raw |-> Fin(3), value |-> NaN, unit |-> <<>>]) :
     s \in {x \in Senders : hasText(trimmedString(x.ip))}, n \in Names}
BeginSynth == Begin(SynthDocs)
UpdateSynth == UpdateRemoteValue(SynthArgs)
NextSynth == BeginSynth \/ UpdateSynth
SpecSynth == Init /\ [][NextSynth]_vars

\* a remote sample that ages until the millisecond counter wraps around
WrapSteps == {ULong(staleThreshold + 1000), ULongSub(ULong(0), ULong(staleThreshold + 1000))}
BeginWrap == Begin({DocPlain})
UpdateWrap == UpdateRemoteValue(FewArgs)
ElapseLong ==
  \E d \in WrapSteps :
    /\ advances < MaxAdvances
    /\ advances' = advances + 1
    /\ millis' = ULongAdd(millis, d)
    /\ UNCHANGED <<tableVars, adsVars, ret, serviceVars>>
NextWrap ==
  \/ BeginWrap
  \/ UpdateWrap
  \/ ElapseLong
  \/ Snapshot
SpecWrap == Init /\ [][NextWrap]_vars

\* queued file writes: requests come in while loop() keeps being called
NextWrite ==
  \/ SetupAccess
  \/ Enqueue
  \/ FileLoop
SpecWrite ==
  /\ Init
  /\ [][NextWrite]_vars
  /\ WF_vars(FileLoop)

\* a discovery scan that hears several replies
ReceiveMerge == Receive(MergeDatagrams)
StartMerge == DiscoverPeersStartOf(MergeTimeouts)
NextMerge ==
  \/ SetupAccess
  \/ ReceiveMerge
  \/ StartMerge
  \/ DiscoverPeersPoll
  \/ Elapse
SpecMerge == Init /\ [][NextMerge]_vars

\* a discovery scan that hears a reply, text that is not JSON and a
\* discover request
ReportDatagrams == {DgReply, DgGarbage, DgDiscover}
ReceiveReport == Receive(ReportDatagrams)
NextReport ==
  \/ SetupAccess
  \/ ReceiveReport
  \/ DiscoverPeersStart
  \/ DiscoverPeersPoll
  \/ Elapse
SpecReport == Init /\ [][NextReport]_vars

\* the heartbeat: ticks with and without a datagram while time passes; the
\* Arduino core calls loop() again and again, so a tick that would change
\* the state is eventually taken
BeatDatagrams == {DgGarbage, DgValue}
BeginBeat == BootBegin({DocNet})
SetupBeat == Setup(AccessFiles)
ReceiveBeat == Receive(BeatDatagrams)
NextBeat ==
  \/ BeginBeat
  \/ SetupBeat
  \/ ReceiveBeat
  \/ UdpLoop
  \/ ElapsePeriod
SpecBeat == Init /\ [][NextBeat]_vars /\ WF_vars(UdpLoop)

\* ------------------------------------------------------------------------
\* Properties
\* ------------------------------------------------------------------------
\* the table as begin() built it from the document
ConfiguredTable == LoadTable(ioDoc)

Channels == 1..Len(m_channels)

NoHostConfigured(n) ==
  LET cfg == ConfiguredTable[n]
  IN ~cfg.hasRemote
     \/ (~hasText(cfg.remote.mac) /\ ~hasText(cfg.remote.ip)
         /\ ~hasText(cfg.remote.hostname))

\* C1: a udp-in channel configured without a descriptor, or with a
\* descriptor that names no mac, ip or hostname, accepts every update whose
\* channel id or label matches, whoever sends it, in every reachable state.
C1_AnySenderAccepted ==
  \A n \in Channels : \A a \in UpdateArgs :
    ( /\ m_channels[n].isUdpIn
      /\ NoHostConfigured(n)
      /\ IdMatches(m_channels[n], Trim(a.channelId), Trim(a.channelLabel)) )
    => n \in UpdatedSet(m_channels, a)

MacOnlyConfigured(n) ==
  LET cfg == ConfiguredTable[n]
  IN /\ cfg.hasRemote
     /\ hasText(cfg.remote.mac)
     /\ ~hasText(cfg.remote.ip)
     /\ ~hasText(cfg.remote.hostname)

\* C2: a udp-in channel configured with a mac only never accepts an update
\* whose mac differs from the configured mac, after any sequence of updates.
C2_MacOnlyRejectsOtherMac ==
  \A n \in Channels : \A a \in UpdateArgs :
    ( /\ m_channels[n].isUdpIn
      /\ MacOnlyConfigured(n)
      /\ n \in UpdatedSet(m_channels, a) )
    => ToLower(Trim(a.mac)) = ToLower(ConfiguredTable[n].remote.mac)

\* some field the descriptor specifies equals, ignoring case, the non-empty
\* incoming field of the same kind
AnySpecifiedFieldEqual(ch, a) ==
  \E f \in {"mac", "ip", "hostname"} :
    /\ Len(ch.remote[f]) > 0
    /\ Len(Trim(a[f])) > 0
    /\ ToLower(ch.remote[f]) = ToLower(Trim(a[f]))

\* C3: within one call, a udp-in channel whose descriptor specifies a mac,
\* ip or hostname and whose identity matches is updated and counted if and
\* only if at least one specified field equals the incoming one; otherwise
\* the call leaves the channel unchanged and does not count it.
C3_HostFilterAnyOf ==
  \A n \in Channels : \A a \in UpdateArgs :
    LET ch == m_channels[n]
    IN ( /\ ch.isUdpIn
         /\ RequireHostMatch(ch)
         /\ IdMatches(ch, Trim(a.channelId), Trim(a.channelLabel)) )
       => /\ (n \in UpdatedSet(m_channels, a)) <=> AnySpecifiedFieldEqual(ch, a)
          /\ ~AnySpecifiedFieldEqual(ch, a)
               => UpdatedTable(m_channels, a, millis)[n] = ch

\* a channel configured with mac and ip has accepted an update whose mac is
\* not the configured one (it matched the ip only)
C3_Witness ==
  /\ ret.op = "updateRemoteValue"
  /\ ret.updated = 1
  /\ ioDoc = DocMacIp
  /\ m_channels[1].remote.mac = sAA
  /\ m_channels[1].remote.ip = sIp1
  /\ m_channels[1].resolvedMac = sBB
  /\ \E a \in UpdateArgs : RequireHostMatch(m_channels[1])
                           /\ IdMatches(m_channels[1], Trim(a.channelId),
                                        Trim(a.channelLabel))
                           /\ ~AnySpecifiedFieldEqual(m_channels[1], a)

\* one of the four combinations compares two non-empty strings that are
\* equal ignoring case
FourWayMatch(ch, a) ==
  \E c \in {ch.remote.channelId, ch.remote.channelLabel} :
    \E i \in {Trim(a.channelId), Trim(a.channelLabel)} :
      Len(c) > 0 /\ Len(i) > 0 /\ ToLower(c) = ToLower(i)

\* C4: for a udp-in channel with a descriptor the identity match succeeds
\* exactly when one of the four combinations of incoming id/label and
\* configured channelId/channelLabel is an equality, ignoring case, of
\* non-empty strings; otherwise the channel is skipped.
C4_IdentityMatchFourWay ==
  \A n \in Channels : \A a \in UpdateArgs :
    LET ch == m_channels[n]
    IN (ch.isUdpIn /\ ch.hasRemote)
       => /\ IdMatches(ch, Trim(a.channelId), Trim(a.channelLabel))
               <=> FourWayMatch(ch, a)
          /\ (n \in UpdatedSet(m_channels, a)) => FourWayMatch(ch, a)
          /\ (FourWayMatch(ch, a) /\ ~RequireHostMatch(ch))
               => n \in UpdatedSet(m_channels, a)
          /\ ~FourWayMatch(ch, a)
               => UpdatedTable(m_channels, a, millis)[n] = ch

\* the channel configured with channelId "b" and label "L" has accepted an
\* update, and some update is an incoming id "l" against the label "L"
C4_Witness ==
  /\ ret.op = "updateRemoteValue"
  /\ ret.updated = 1
  /\ ioDoc = DocMacIp
  /\ m_channels[1].remote.channelLabel = <<"L">>
  /\ \E a \in UpdateArgs :
       /\ a.channelId = <<"l">>
       /\ a.channelLabel = <<>>
       /\ 1 \in UpdatedSet(m_channels, a)

\* the table with every timestamp set aside
CacheOf(ch) ==
  [raw |-> ch.lastRemoteRaw, value |-> ch.lastRemoteValue,
   hasRaw |-> ch.remoteHasRaw, hasValue |-> ch.remoteHasValue]

\* C5: a second call with the same arguments counts the same channels and
\* leaves every channel as the first call left it, except for the
\* timestamp of the channels it counts.
C5_SecondCallIdempotent ==
  \A a \in UpdateArgs : \A d \in TimeSteps :
    LET first == UpdatedTable(m_channels, a, millis)
        later == ULongAdd(millis, ULong(d))
        second == UpdatedTable(first, a, later)
    IN /\ UpdatedSet(first, a) = UpdatedSet(m_channels, a)
       /\ updateRemoteValue(first, a) = updateRemoteValue(m_channels, a)
       /\ \A n \in Channels :
            /\ CacheOf(second[n]) = CacheOf(first[n])
            /\ second[n] =
                 IF n \in UpdatedSet(first, a)
                 THEN [first[n] EXCEPT !.remoteLastUpdate = later]
                 ELSE first[n]

\* an update that supplied only a raw has been accepted: the value was
\* seeded from it and is not marked present, and the same update is accepted
\* again
C5_Witness ==
  /\ ret.op = "updateRemoteValue"
  /\ ret.updated = 1
  /\ m_channels[1].remoteHasRaw
  /\ ~m_channels[1].remoteHasValue
  /\ m_channels[1].lastRemoteValue = m_channels[1].lastRemoteRaw
  /\ m_channels[1].lastRemoteRaw = 3
  /\ \E a \in UpdateArgs :
       /\ a.raw = Fin(3)
       /\ a.value = NaN
       /\ UpdatedSet(m_channels, a) = {1}
       /\ UpdatedTable(m_channels, a, millis) = m_channels

\* the "remote" objects of the udp-in entries of the last snapshot
SnapshotRemotes ==
  {n \in 1..Len(ret.channels) : ret.channels[n].hasRemoteObject}

\* C6 (as claimed): snapshot reports "waiting" with age_ms = -1 exactly for
\* the udp-in channels no update has counted since the last load; a counted
\* channel is reported "online" or "stale" with a non-negative age.
C6_WaitingIffNeverCounted ==
  ret.op = "snapshot" =>
    \A n \in SnapshotRemotes :
      LET r == ret.channels[n].remote
      IN /\ (r.status = "waiting" /\ r.age_ms = JsonMinusOne)
              <=> n \notin everCounted
         /\ n \in everCounted
              => (r.status \in {"online", "stale"} /\ ~r.age_ms.neg)

\* C6 (amended): snapshot reports "waiting" with age_ms = -1 exactly for the
\* udp-in channels that have accepted no update carrying a finite raw or
\* value since the last load; a channel that accepted one is reported
\* "online" or "stale" with a non-negative age.
C6_WaitingIffNoData ==
  ret.op = "snapshot" =>
    \A n \in SnapshotRemotes :
      LET r == ret.channels[n].remote
      IN /\ (r.status = "waiting" /\ r.age_ms = JsonMinusOne)
              <=> n \notin everData
         /\ n \in everData
              => (r.status \in {"online", "stale"} /\ ~r.age_ms.neg)
         /\ r.status \in {"waiting", "online", "stale"}

\* a channel that accepted an update with data is listed as stale by a
\* later snapshot
C6_Witness ==
  /\ ret.op = "snapshot"
  /\ \E n \in SnapshotRemotes :
       /\ n \in everData
       /\ ret.channels[n].remote.status = "stale"
       /\ ~ret.channels[n].remote.age_ms.neg

\* C7: for a udp-in channel that holds cached data, snapshot reports the
\* time elapsed since remoteLastUpdate (on the 32-bit counter) as age_ms,
\* "online" when it is at most 5000 ms and "stale" when it is greater.
C7_StatusByAge ==
  ret.op = "snapshot" =>
    \A n \in SnapshotRemotes :
      LET r == ret.channels[n].remote
          ch == m_channels[n]
          age == [hi |-> r.age_ms.hi, lo |-> r.age_ms.lo]
      IN (ch.remoteHasRaw \/ ch.remoteHasValue)
         => /\ ~r.age_ms.neg
            /\ ULongAdd(ch.remoteLastUpdate, age) = ret.now
            /\ (age.hi = 0 /\ age.lo <= 5000) => r.status = "online"
            /\ (age.hi > 0 \/ age.lo > 5000) => r.status = "stale"

\* a snapshot taken exactly 5000 ms after the last update reports online
C7_Witness ==
  /\ ret.op = "snapshot"
  /\ \E n \in SnapshotRemotes :
       /\ m_channels[n].remoteHasRaw
       /\ m_channels[n].remoteLastUpdate = ULong(1000)
       /\ ret.now = ULong(6000)
       /\ ret.channels[n].remote.age_ms = JsonULong(ULong(5000))
       /\ ret.channels[n].remote.status = "online"

\* channels carrying the id, and the one a lookup by id finds
Carriers(id) == {n \in Channels : m_channels[n].id = id}
Found(id) == {n \in Carriers(id) : \A m \in Carriers(id) : n <= m}

\* C8: readRaw of an id that names a udp-in channel returns the cached raw
\* if present, else the cached value if present, else 0, whatever the age
\* of the cache; readRaw of an id that is not in the table returns 0.
C8_ReadRawCache ==
  ret.op = "readRaw" =>
    /\ Carriers(ret.id) = {} => ret.value = 0
    /\ \A n \in Found(ret.id) :
         m_channels[n].isUdpIn =>
           ret.value = IF m_channels[n].remoteHasRaw
                       THEN m_channels[n].lastRemoteRaw
                       ELSE IF m_channels[n].remoteHasValue
                       THEN m_channels[n].lastRemoteValue
                       ELSE 0

\* readRaw returned the cached raw of a channel that also holds a different
\* cached value, more than 5000 ms after the last update
C8_Witness ==
  /\ ret.op = "readRaw"
  /\ ret.value = 3
  /\ \E n \in Found(ret.id) :
       /\ m_channels[n].isUdpIn
       /\ m_channels[n].remoteHasRaw
       /\ m_channels[n].remoteHasValue
       /\ m_channels[n].lastRemoteValue = 7
       /\ ULongGreater(ULongSub(ret.at, m_channels[n].remoteLastUpdate),
                       ULong(staleThreshold))

\* C9: convert(id, r) is k*r + b for the channel the id names and 0 for an
\* id that is not in the table; readValue(id) is convert applied to the raw
\* that readRaw delivered.
C9_ConvertLinear ==
  /\ ret.op \in {"convert", "readValue"} =>
       /\ Carriers(ret.id) = {} => ret.value = 0
       /\ \A n \in Found(ret.id) :
            ret.value = m_channels[n].k * ret.raw + m_channels[n].b
  /\ ret.op = "readValue" =>
       /\ Carriers(ret.id) = {} => ret.raw = 0
       /\ \A n \in Found(ret.id) :
            m_channels[n].isUdpIn =>
              ret.raw = IF m_channels[n].remoteHasRaw
                        THEN m_channels[n].lastRemoteRaw
                        ELSE IF m_channels[n].remoteHasValue
                        THEN m_channels[n].lastRemoteValue
                        ELSE 0

\* convert on the channel with k = 2, b = 1 and raw 3 returned 7
C9_Witness ==
  /\ ret.op = "convert"
  /\ ret.id = <<"r", "2">>
  /\ ret.raw = 3
  /\ ret.value = 7
  /\ \E n \in Found(ret.id) : m_channels[n].k = 2 /\ m_channels[n].b = 1

\* the object entries of the document, in document order
ObjectEntries == SelectSeq(DocArray(ioDoc), IsObject)

Kept == IF Len(ObjectEntries) < kMaxChannels THEN Len(ObjectEntries)
        ELSE kMaxChannels

EntryId(j) ==
  IF "id" \in DOMAIN ObjectEntries[j] THEN Trim(ObjectEntries[j].id)
  ELSE <<"c", "h">> \o DecStr(j)

EntryIsUdpIn(j) ==
  /\ "type" \in DOMAIN ObjectEntries[j]
  /\ ToLower(ObjectEntries[j].type) \in {sTypeUdpIn, sTypeUdp}

DroppedIds == {EntryId(j) : j \in (Kept + 1)..Len(ObjectEntries)}

\* C10: the table holds the first 16 object entries of the list in document
\* order and never more than 16 channels; readRaw and convert return 0 for
\* the id of a dropped entry, no update counts one, and snapshot and
\* describeChannels list the kept channels only.
C10_TableBound ==
  /\ m_channelCount <= kMaxChannels
  /\ m_channelCount = Kept
  /\ Len(m_channels) = Kept
  /\ \A j \in 1..Kept :
       /\ m_channels[j].id = EntryId(j)
       /\ m_channels[j].isUdpIn = EntryIsUdpIn(j)
       /\ m_channels[j].k = OrDefault(ObjectEntries[j], "k", 1)
       /\ m_channels[j].b = OrDefault(ObjectEntries[j], "b", 0)
  /\ (ret.op \in {"readRaw", "convert"} /\ ret.id \in DroppedIds
      /\ Carriers(ret.id) = {}) => ret.value = 0
  /\ ret.op = "updateRemoteValue" =>
       ret.updated <= Cardinality({j \in 1..Kept : EntryIsUdpIn(j)})
  /\ \A a \in FewArgs : UpdatedSet(m_channels, a) \subseteq 1..Kept
  /\ ret.op \in {"snapshot", "describeChannels"} =>
       /\ Len(ret.channels) = Kept
       /\ \A j \in 1..Kept : ret.channels[j].id = EntryId(j)

\* a list of more than 16 objects is loaded, the 16th kept entry and the
\* first dropped entry are udp-in channels with the same remote channel id,
\* and an update for that id has counted one channel
C10_Witness ==
  /\ Len(ObjectEntries) > kMaxChannels
  /\ m_channelCount = kMaxChannels
  /\ EntryIsUdpIn(kMaxChannels)
  /\ EntryIsUdpIn(kMaxChannels + 1)
  /\ ret.op = "updateRemoteValue"
  /\ ret.updated = 1

\* C11: begin() without a ConfigStore, or with a document that is neither a
\* list nor an object holding a channels list, leaves the registry with zero
\* channels, also when the previous table held channels; every query then
\* answers as for an empty table.
C11_InvalidConfigLoadsNothing ==
  ArrIsNull(ioDoc) =>
    /\ m_channelCount = 0
    /\ m_channels = <<>>
    /\ ret.op \in {"snapshot", "describeChannels"} => ret.channels = <<>>
    /\ ret.op \in {"readRaw", "convert"} => ret.value = 0
    /\ ret.op = "updateRemoteValue" => ret.updated = 0

\* a reload with a document that holds its list under a wrong key has just
\* discarded a table of 16 channels
C11_Witness ==
  /\ ret.op = "begin"
  /\ ret.previous = kMaxChannels
  /\ ioDoc = DocMisnamed
  /\ m_channelCount = 0

\* C12: after begin() the ids of the channels of the table are pairwise
\* distinct.
C12_IdsDistinct ==
  \A n \in Channels : \A m \in Channels :
    n # m => m_channels[n].id # m_channels[m].id

\* the fields of a channel that only begin() writes
ConfigOf(ch) ==
  [id |-> ch.id, type |-> ch.type, index |-> ch.index, k |-> ch.k, b |-> ch.b,
   isUdpIn |-> ch.isUdpIn]

\* one call from the current table, for every argument tuple
C14_PerCall ==
  \A a \in FrameArgs :
    LET after == UpdatedTable(m_channels, a, millis)
        counted == UpdatedSet(m_channels, a)
    IN /\ Len(after) = Len(m_channels)
       /\ updateRemoteValue(m_channels, a) = Cardinality(counted)
       /\ \A n \in Channels :
            LET ch == m_channels[n]
            IN /\ ConfigOf(after[n]) = ConfigOf(ch)
               /\ ~ch.isUdpIn => (after[n] = ch /\ n \notin counted)
               /\ ( \/ ~IdMatches(ch, Trim(a.channelId), Trim(a.channelLabel))
                    \/ ~HostFilterPasses(ch, Trim(a.mac), Trim(a.ip),
                                         Trim(a.hostname)) )
                    => (after[n] = ch /\ n \notin counted)
               /\ after[n] # ch => n \in counted
               /\ n \in counted => after[n].remoteLastUpdate = millis

\* the step taken by a call
C14_Step ==
  ret'.op = "updateRemoteValue" =>
    /\ m_channelCount' = m_channelCount
    /\ Len(m_channels') = Len(m_channels)
    /\ \A n \in Channels :
         /\ ConfigOf(m_channels'[n]) = ConfigOf(m_channels[n])
         /\ ~m_channels[n].isUdpIn => m_channels'[n] = m_channels[n]
    /\ Cardinality({n \in Channels : m_channels'[n] # m_channels[n]})
         <= ret'.updated

\* C14: updateRemoteValue never changes the type, id, index, k or b of a
\* channel, any field of a channel that is not udp-in, or the number of
\* channels; a udp-in channel that fails the identity match or the host
\* filter is left as it was; the return value is the number of channels the
\* apply step wrote, and no other channel differs after the call.
C14_UpdateFrame == []C14_PerCall /\ [][C14_Step]_vars

\* an update for the id "T1" has been counted once, for the udp-in channel
\* of a table whose first channel is a local one carrying the same id
C14_Witness ==
  /\ ret.op = "updateRemoteValue"
  /\ ret.updated = 1
  /\ ioDoc = DocDuplicate
  /\ ~m_channels[1].isUdpIn
  /\ m_channels[1].id = m_channels[2].id
  /\ m_channels[1] = ConfiguredTable[1]
  /\ m_channels[2].remoteHasRaw

\* C15: an accepted update writes the finite raw and the finite value it
\* supplies over the cached ones and sets remoteLastUpdate to the current
\* time; so a udp-in channel holding a cached raw or value has the time of
\* its most recent accepted update as remoteLastUpdate, and the cached raw
\* and value are those of the most recent accepted updates that supplied them.
C15_CacheIsLastSample ==
  /\ \A a \in FewArgs : \A n \in UpdatedSet(m_channels, a) :
       LET after == UpdatedTable(m_channels, a, millis)[n]
       IN /\ after.remoteLastUpdate = millis
          /\ a.raw.kind = "finite"
               => (after.remoteHasRaw /\ after.lastRemoteRaw = a.raw.v)
          /\ a.value.kind = "finite"
               => (after.remoteHasValue /\ after.lastRemoteValue = a.value.v)
          /\ a.raw.kind # "finite"
               => /\ after.remoteHasRaw = m_channels[n].remoteHasRaw
                  /\ after.lastRemoteRaw = m_channels[n].lastRemoteRaw
          /\ a.value.kind # "finite"
               => after.remoteHasValue = m_channels[n].remoteHasValue
  /\ \A n \in Channels :
       LET ch == m_channels[n]
       IN /\ ch.remoteHasRaw = lastSample[n].hasRaw
          /\ ch.remoteHasValue = lastSample[n].hasValue
          /\ ch.remoteHasRaw => ch.lastRemoteRaw = lastSample[n].raw
          /\ ch.remoteHasValue => ch.lastRemoteValue = lastSample[n].value
          /\ (ch.remoteHasRaw \/ ch.remoteHasValue)
               => (lastSample[n].accepted
                   /\ ch.remoteLastUpdate = lastSample[n].at)

\* a channel holds the raw 4 of its latest update, which replaced the raw 3,
\* and the value 7 of an update before; the latest update came later
C15_Witness ==
  /\ ret.op = "updateRemoteValue"
  /\ ret.updated = 1
  /\ \E n \in Channels :
       /\ m_channels[n].remoteHasRaw
       /\ m_channels[n].remoteHasValue
       /\ m_channels[n].lastRemoteRaw = 4
       /\ m_channels[n].lastRemoteValue = 7
       /\ m_channels[n].remoteLastUpdate = millis
       /\ ULongGreater(millis, ULong(4000))

\* C13: once setup() has returned with the configuration provider started,
\* the table holds the channels of the "io" document, so that the first tick
\* and the first snapshot request find them
C13_RegistryLoadedBySetup ==
  (phase = "running" /\ m_count > 0) =>
     /\ m_channels = LoadTable(getConfig(m_entries, "io"))
     /\ m_channelCount = Len(LoadTable(getConfig(m_entries, "io")))

\* C16: a step of snapshot, describeChannels, describeHardware, readRaw,
\* convert or readValue leaves the table and the channel count as they were;
\* a step that changes them is a load, or a tick whose handler forwarded a
\* message to updateRemoteValue, which counted a channel
ReaderOps ==
  {"snapshot", "describeChannels", "describeHardware", "readRaw", "convert",
   "readValue"}

TableSame == m_channels' = m_channels /\ m_channelCount' = m_channelCount

C16_Step ==
  /\ (ret' # ret /\ ret'.op \in ReaderOps) => TableSame
  /\ ~TableSame =>
       \/ ret'.op = "begin"
       \/ /\ ret'.op = "loop"
          /\ \E i \in 1..Len(ret'.attempts) :
                ret'.attempts[i].forwarded /\ ret'.attempts[i].updated > 0

C16_ReadersLeaveTable == [][C16_Step]_vars

\* a snapshot taken of a table whose udp-in channel holds a remote sample
C16_Witness ==
  /\ ret.op = "snapshot"
  /\ \E n \in Channels : m_channels[n].remoteHasRaw
  /\ \E i \in 1..Len(ret.channels) : ret.channels[i].remote.status = "online"

\* C17: once setup() has returned with the service not running (disabled by
\* configuration, or the port not bound), every step leaves it not running,
\* leaves the channels and the time of the last heartbeat as they were and
\* takes no datagram from the queue; a tick sends nothing, and discoverPeers
\* sends nothing, starts no scan and returns false with status
\* "udp_disabled" and no device
Unbound == phase = "running" /\ ~m_running

C17_Step ==
  Unbound =>
    /\ ~m_running'
    /\ m_channels' = m_channels
    /\ m_lastSend' = m_lastSend
    /\ Len(rxQueue') >= Len(rxQueue)
    /\ SubSeq(rxQueue', 1, Len(rxQueue)) = rxQueue
    /\ ~scan'.active
    /\ ret' # ret =>
         \/ /\ ret'.op = "loop"
            /\ ~ret'.consumed
            /\ ~ret'.heartbeat
            /\ ret'.sent = <<>>
         \/ /\ ret'.op = "discoverPeers"
            /\ ~ret'.returned
            /\ ret'.status = "udp_disabled"
            /\ ret'.devices = <<>>
            /\ ret'.sent = <<>>

C17_UnboundForever == [][C17_Step]_vars

\* a tick of the service disabled by configuration, with datagrams waiting
\* and a heartbeat period elapsed
C17_Witness ==
  /\ Unbound
  /\ ~m_enabled
  /\ ret.op = "loop"
  /\ Len(rxQueue) = MaxQueue
  /\ Len(m_channels) > 0
  /\ ~ULongGreater(ULong(heartbeatPeriod), ULongSub(millis, m_lastSend))

\* C18: a tick that takes from the queue a datagram that does not parse in
\* the buffer of loop(), that has neither cmd nor type, or whose cmd/type is
\* none of the six known ones, leaves the registry as it was, calls
\* updateRemoteValue for nothing and sends no reply (at most the periodic
\* heartbeat leaves in that tick); the service stays running on its ports
KnownCmds ==
  {"discover", "list_inputs", "value", "channel_value", "values", "snapshot"}

Ignored(d) ==
  \/ d.json = Malformed
  \/ d.size >= loopBufSize
  \/ ("cmd" \notin DOMAIN d.json /\ "type" \notin DOMAIN d.json)
  \/ ("cmd" \in DOMAIN d.json /\ d.json.cmd \notin KnownCmds)
  \/ ("cmd" \notin DOMAIN d.json /\ "type" \in DOMAIN d.json
        /\ d.json.type \notin KnownCmds)

TickTakes == m_running /\ Len(rxQueue) > 0 /\ ret'.op = "loop" /\ rxQueue' = Tail(rxQueue)

C18_Step ==
  (TickTakes /\ Ignored(Head(rxQueue))) =>
    /\ ret'.consumed
    /\ ret'.packet = Head(rxQueue)
    /\ <<m_channels, m_channelCount, everCounted, everData, lastSample>>' =
         <<m_channels, m_channelCount, everCounted, everData, lastSample>>
    /\ ret'.attempts = <<>>
    /\ ret'.replies = <<>>
    /\ \A i \in 1..Len(ret'.sent) : ret'.sent[i].msg.msg = "heartbeat"
    /\ m_running'
    /\ <<m_rxPort, m_txPort, m_enabled>>' = <<m_rxPort, m_txPort, m_enabled>>

C18_IgnoredDatagram == [][C18_Step]_vars

\* a discover_reply that names the id of a configured udp-in channel is taken
\* by a tick, with another datagram waiting behind it
C18_Witness ==
  /\ ret.op = "loop"
  /\ ret.consumed
  /\ ret.packet = DgReply
  /\ Ignored(ret.packet)
  /\ \E n \in Channels : m_channels[n].id = ret.packet.json.id
  /\ Len(rxQueue) > 0

\* C19 as stated: every input listed in a discover_reply is of a kind backed
\* by the hardware of the device (the internal ADC or the ADS1115)
C19_OnlyHardwareKinds ==
  (ret.op = "loop" /\ Len(ret.replies) > 0) =>
     \A i \in 1..Len(ret.replies[1].msg.inputs) :
        ret.replies[1].msg.inputs[i].type \in {sTypeA0, sTypeAds}

\* C19: a tick that takes a discover or list_inputs datagram from the queue
\* sends exactly one discover_reply, to the address and source port of that
\* datagram, calls updateRemoteValue for nothing and leaves the registry as
\* it was; every input listed is a configured channel that is not udp-in,
\* with its id, type, index, k, b and unit
AsksInputs(d) ==
  /\ d.json # Malformed
  /\ d.size < loopBufSize
  /\ \/ ("cmd" \in DOMAIN d.json /\ d.json.cmd \in {"discover", "list_inputs"})
     \/ ("cmd" \notin DOMAIN d.json /\ "type" \in DOMAIN d.json
           /\ d.json.type \in {"discover", "list_inputs"})

Advertises(input, ch) ==
  /\ ~ch.isUdpIn
  /\ ch.type # sTypeUdpIn
  /\ input.id = ch.id
  /\ input.type = ch.type
  /\ input.index = ch.index
  /\ input.k = ch.k
  /\ input.b = ch.b
  /\ input.unit = ch.unit

C19_Step ==
  (TickTakes /\ AsksInputs(Head(rxQueue))) =>
    /\ Len(ret'.replies) = 1
    /\ ret'.replies[1].ip = Head(rxQueue).ip
    /\ ret'.replies[1].port = Head(rxQueue).port
    /\ ret'.replies[1].msg.type = "discover_reply"
    /\ \A i \in 1..Len(ret'.sent) :
          \/ ret'.sent[i] = ret'.replies[1]
          \/ ret'.sent[i] = Heartbeat
    /\ ret'.attempts = <<>>
    /\ <<m_channels, m_channelCount, everCounted, everData, lastSample>>' =
         <<m_channels, m_channelCount, everCounted, everData, lastSample>>
    /\ \A i \in 1..Len(ret'.replies[1].msg.inputs) :
          /\ ret'.replies[1].msg.inputs[i].origin # sTypeUdpIn
          /\ \E n \in Channels :
                Advertises(ret'.replies[1].msg.inputs[i], m_channels[n])

C19_DiscoveryReply == [][C19_Step]_vars

\* a list_inputs datagram answered while the udp-in channel holds a sample
C19_Witness ==
  /\ ret.op = "loop"
  /\ ret.packet = DgListInputs
  /\ Len(ret.replies) = 1
  /\ ret.replies[1].port = 4000
  /\ Len(ret.replies[1].msg.inputs) = 2
  /\ \E n \in Channels : m_channels[n].isUdpIn /\ m_channels[n].remoteHasRaw

\* C20: for a values or snapshot message that holds an array under "values"
\* or "channels", the handler calls applyRemoteValue once per entry of the
\* array and for nothing else: neither for the nested channel object nor for
\* the message itself
C20_ArrayOnly ==
  (/\ ret.op = "loop"
   /\ ret.consumed
   /\ ret.packet.size < loopBufSize
   /\ CmdOf(ret.packet.json) \in {"values", "snapshot"}
   /\ HasValuesArray(ret.packet.json)) =>
     /\ Len(ret.attempts) = Len(ValuesArray(ret.packet.json))
     /\ \A i \in 1..Len(ret.attempts) :
           /\ ret.attempts[i].origin = "element"
           /\ ret.attempts[i].args =
                RemoteArgs(ValuesArray(ret.packet.json)[i], <<>>, <<>>,
                           ret.packet.ip)

\* C21: a values or snapshot message whose array is empty or absent and that
\* carries an id at the top level makes the handler call applyRemoteValue
\* exactly once, and that call reaches updateRemoteValue
C21_OneAttempt ==
  (/\ ret.op = "loop"
   /\ ret.consumed
   /\ ret.packet.size < loopBufSize
   /\ CmdOf(ret.packet.json) \in {"values", "snapshot"}
   /\ Len(ValuesArray(ret.packet.json)) = 0
   /\ ContainsKey(ret.packet.json, "id")) =>
     /\ Len(ret.attempts) = 1
     /\ ret.attempts[1].forwarded

\* the payload handed to call i of applyRemoteValue: an entry of the array,
\* the nested channel object or the message itself
AttemptPayload(i) ==
  IF ret.attempts[i].origin = "element"
  THEN ValuesArray(ret.packet.json)[i]
  ELSE IF ret.attempts[i].origin = "channel"
  THEN NestedChannel(ret.packet.json)
  ELSE ret.packet.json

Pick(a, b) == IF hasText(a) THEN a ELSE b

TickStep ==
  /\ phase = "running"
  /\ phase' = "running"
  /\ ~scan.active
  /\ ret'.op = "loop"
  /\ millis' = millis
  /\ Len(rxQueue') <= Len(rxQueue)

\* number of heartbeat messages among the datagrams sent
BeatsIn(sent) ==
  Cardinality({i \in 1..Len(sent) :
                 /\ "msg" \in DOMAIN sent[i].msg
                 /\ sent[i].msg.msg = "heartbeat"})

\* C23: a tick broadcasts at most one heartbeat, and when it broadcasts one
\* at least 1000 ms have passed since the heartbeat before, however long
\* the time without ticks has been
C23_Step ==
  TickStep =>
    /\ BeatsIn(ret'.sent) <= 1
    /\ ret'.heartbeat = (BeatsIn(ret'.sent) = 1)
    /\ (ret'.heartbeat /\ lastBeat.sent) =>
          ~ULongGreater(ULong(heartbeatPeriod), ULongSub(millis, lastBeat.at))

C23_HeartbeatSpacing == [][C23_Step]_vars

\* a tick more than two periods after the heartbeat before (the time a
\* discovery scan or a stalled loop takes): it broadcast one heartbeat
C23_Witness ==
  /\ ret.op = "loop"
  /\ ret.heartbeat
  /\ BeatsIn(ret.sent) = 1
  /\ lastBeat.late
  /\ lastBeat.at = millis

\* at least one heartbeat period has passed since the last heartbeat (since
\* boot when there was none)
PeriodElapsed ==
  ~ULongGreater(ULong(heartbeatPeriod), ULongSub(millis, lastBeat.at))

\* C24: while the service is bound, a tick taken when at least 1000 ms have
\* passed since the last heartbeat broadcasts a heartbeat, whether or not it
\* took a datagram; and as ticks keep occurring, a heartbeat that is due is
\* eventually broadcast
C24_Step ==
  (TickStep /\ m_running /\ PeriodElapsed) =>
    /\ ret'.heartbeat
    /\ BeatsIn(ret'.sent) = 1
    /\ ret'.sent[Len(ret'.sent)] = Heartbeat
    /\ lastBeat'.at = millis

C24_HeartbeatWhenDue ==
  /\ [][C24_Step]_vars
  /\ (m_running /\ PeriodElapsed) ~> (lastBeat.sent /\ lastBeat.at = millis)

\* a tick that took a datagram that is not JSON and broadcast the heartbeat
C24_Witness ==
  /\ ret.op = "loop"
  /\ ret.consumed
  /\ ret.packet = DgGarbage
  /\ ret.heartbeat
  /\ BeatsIn(ret.sent) = 1
  /\ lastBeat.at = millis

\* C25: a tick takes the first datagram of the queue when the service is
\* bound and the queue is not empty, and no other; what the handler sent for
\* it precedes the heartbeat of the same tick; the rest of the queue stays
C25_Step ==
  TickStep =>
    /\ ret'.consumed = (m_running /\ Len(rxQueue) > 0)
    /\ rxQueue' = IF ret'.consumed THEN Tail(rxQueue) ELSE rxQueue
    /\ ret'.consumed => ret'.packet = Head(rxQueue)
    /\ Len(ret'.replies) <= 1
    /\ ret'.sent = ret'.replies \o (IF ret'.heartbeat THEN <<Heartbeat>>
                                    ELSE <<>>)
    /\ (ret'.consumed /\ ret'.packet = DgValue) =>
          \A n \in 1..Len(m_channels) :
            m_channels[n].isUdpIn =>
              /\ m_channels'[n].remoteHasRaw
              /\ m_channels'[n].lastRemoteRaw = 3
              /\ m_channels'[n].remoteLastUpdate = millis

C25_OneDatagramPerTick == [][C25_Step]_vars

\* a tick that answered a discover datagram, then sent the heartbeat, and
\* left the second datagram of the queue where it was
C25_Witness ==
  /\ ret.op = "loop"
  /\ ret.consumed
  /\ ret.packet = DgDiscover
  /\ Len(ret.sent) = 2
  /\ ret.sent[1].msg.type = "discover_reply"
  /\ ret.heartbeat
  /\ Len(rxQueue) = 1

\* a step of the polling loop of discoverPeers() that takes the first
\* datagram of the queue
ScanTakes ==
  /\ scan.active
  /\ Len(rxQueue) > 0
  /\ ret'.op = "discoverPoll"
  /\ rxQueue' = Tail(rxQueue)

\* positions of the entries of a device list that carry this mac
WithMac(devices, mac) ==
  {i \in 1..Len(devices) : equalsIgnoreCase(devices[i].mac, mac)}

Field(obj, key, default) == IF key \in DOMAIN obj THEN obj[key] ELSE default

\* C26: when the scan takes a discover_reply that carries a mac, the device
\* list afterwards holds exactly one entry with that mac (ignoring case); the
\* entry holds the mac, hostname, ip, ports and inputs of this reply and the
\* elapsed time of the scan, and nothing else; the other entries stay
C26_Step ==
  (/\ ScanTakes
   /\ TypeOf(Head(rxQueue).json) = "discover_reply"
   /\ Head(rxQueue).size < scanBufSize
   /\ Len(Field(Head(rxQueue).json, "mac", <<>>)) > 0) =>
    LET reply == Head(rxQueue).json
        old == scan.devices
        new == scan'.devices
        at == WithMac(new, reply.mac)
    IN /\ Cardinality(at) = 1
       /\ \A i \in at :
            /\ DOMAIN new[i] = {"mac", "hostname", "ip", "rx_port", "tx_port",
                                "inputs", "lastSeenMs"}
            /\ new[i].mac = reply.mac
            /\ new[i].hostname = Field(reply, "hostname", <<>>)
            /\ new[i].ip = Field(reply, "ip", Head(rxQueue).ip)
            /\ new[i].rx_port = Field(reply, "rx_port", m_rxPort)
            /\ new[i].tx_port = Field(reply, "tx_port", m_txPort)
            /\ new[i].lastSeenMs = ULongSub(millis, scan.start)
            /\ Len(new[i].inputs) =
                 Cardinality({n \in 1..Len(Field(reply, "inputs", <<>>)) :
                                IsObject(reply.inputs[n])})
            /\ \A n \in 1..Len(new[i].inputs) :
                 \E m \in 1..Len(reply.inputs) :
                    /\ IsObject(reply.inputs[m])
                    /\ new[i].inputs[n].id = Field(reply.inputs[m], "id", <<>>)
                    /\ new[i].inputs[n].type =
                         Field(reply.inputs[m], "type", <<>>)
                    /\ new[i].inputs[n].index =
                         Field(reply.inputs[m], "index", 0)
                    /\ new[i].inputs[n].k = Field(reply.inputs[m], "k", 0)
            /\ WithMac(old, reply.mac) # {} => i \in WithMac(old, reply.mac)
       /\ Len(new) = Len(old) + (IF WithMac(old, reply.mac) = {} THEN 1 ELSE 0)
       /\ \A j \in 1..Len(old) : j \notin at => new[j] = old[j]

C26_OneEntryPerMac == [][C26_Step]_vars

\* a scan that heard the device bb twice, the other device in between: its
\* report lists bb first, as the later reply described it, then the other
C26_Witness ==
  /\ ret.op = "discoverPeers"
  /\ Len(ret.devices) = 2
  /\ ret.devices[1].mac = <<"b", "b">>
  /\ ret.devices[1].hostname = <<"h", "2">>
  /\ ret.devices[1].rx_port = 7
  /\ ret.devices[1].inputs = <<>>
  /\ ret.devices[1].lastSeenMs = ULong(20)
  /\ ret.devices[2].mac = sAA
  /\ ret.devices[2].lastSeenMs = ULong(10)
  /\ Len(ret.devices[2].inputs) = 1

\* the datagram reads as a discover_reply in the buffer of discoverPeers()
IsReplyDatagram(d) ==
  /\ d.json # Malformed
  /\ d.size < scanBufSize
  /\ TypeOf(d.json) = "discover_reply"

\* C27: a scan on a bound service starts with an empty device list; the
\* list becomes non-empty exactly when the scan takes a discover_reply, and
\* no other datagram adds to it; when the time is up the scan reports "ok"
\* and returns true if the list is not empty, and otherwise reports
\* "no_devices" with an empty list and returns false
C27_Step ==
  /\ (~scan.active /\ scan'.active) =>
        /\ m_running
        /\ scan'.devices = <<>>
  /\ (scan.active /\ scan'.active) =>
        (Len(scan'.devices) > 0) =
          (\/ Len(scan.devices) > 0
           \/ ScanTakes /\ IsReplyDatagram(Head(rxQueue)))
  /\ (scan.active /\ ~scan'.active) =>
        /\ ret'.op = "discoverPeers"
        /\ ret'.devices = scan.devices
        /\ ret'.returned = (Len(scan.devices) > 0)
        /\ ret'.status = IF Len(scan.devices) > 0 THEN "ok" ELSE "no_devices"
        /\ ULongGreater(ULongSub(millis, scan.start), scan.timeoutMs)
        /\ rxQueue' = rxQueue

C27_StatusByReplies == [][C27_Step]_vars

\* a scan that ended with one device after it took a reply
C27_Witness ==
  /\ ret.op = "discoverPeers"
  /\ ret.timed
  /\ ret.returned
  /\ ret.status = "ok"
  /\ Len(ret.devices) = 1
  /\ ret.devices[1].mac = sBB

\* what a tick of loop() makes of the datagram d
TickOutcome(d) ==
  handleIncomingPacket(Registry, Deserialize(d, loopBufSize), d.ip, d.port,
                       m_rxPort, m_txPort, millis)

\* C28: when the scan takes a datagram that is not a discover_reply, the
\* channel table and the replies sent are those a tick of loop() would
\* have produced for the same datagram, and the device list stays
C28_Step ==
  (ScanTakes /\ ~IsReplyDatagram(Head(rxQueue))) =>
    /\ m_channels' = TickOutcome(Head(rxQueue)).reg.table
    /\ ret'.replies = TickOutcome(Head(rxQueue)).replies
    /\ scan'.devices = scan.devices

C28_SameAsTick == [][C28_Step]_vars

\* the clock of the model can advance two more times
TimeLeft == advances + 2 <= MaxAdvances

\* an iteration of the polling loop
ScanIterates ==
  /\ scan.active
  /\ scan'.active
  /\ ret'.op = "discoverPoll"
  /\ ScanTakes \/ millis' = ULongAdd(millis, ULong(scanDelay))

IsDiscoverRequest(sent) == "cmd" \in DOMAIN sent.msg /\ sent.msg.cmd = "discover"

C29_Step ==
  /\ (~scan.active /\ scan'.active) =>
        /\ Len(ret'.sent) = 1
        /\ IsDiscoverRequest(ret'.sent[1])
        /\ ret'.sent[1].ip = broadcastIp
        /\ ret'.sent[1].port = m_rxPort
        /\ scan'.start = millis
  /\ ScanIterates =>
        /\ ~ULongGreater(ULongSub(millis, scan.start), scan.timeoutMs)
        /\ \A i \in 1..Len(ret'.sent) : ~IsDiscoverRequest(ret'.sent[i])
  /\ (scan.active /\ ~scan'.active) =>
        /\ ULongGreater(ULongSub(millis, scan.start), scan.timeoutMs)
        /\ ret'.elapsed_ms = ULongSub(millis, scan.start)
        /\ ret'.sent = <<>>
        /\ scan.timeoutMs # ULongMax

getConfigArea(entries, area) ==
  getConfigEntries(entries, area)[getConfigIndex(entries, area)].area

\* the areas the services ask for: three that begin() loads and two it does
\* not ("udp" of UdpService::begin, "outputs" of FuncGen)
AskedAreas == {"general", "network", "io", "udp", "outputs"}

\* C30: once begin() has loaded the areas, getConfig(area) returns the
\* document of the entry stored under exactly that area name, for every area
\* a service asks for, so that a reader of one area never gets the document
\* of another
C30_ReturnsOwnDocument ==
  (phase = "running" /\ m_count > 0) =>
     \A area \in AskedAreas : getConfigArea(m_entries, area) = area

\* C31: the requests loop() attempted are, in order, the first of the
\* requests enqueue() accepted (each once, also two for the same path); a
\* call of loop() attempts at most one; and while loop() keeps being called
\* the n-th accepted request is eventually attempted
C31_Step ==
  /\ Len(writeLog'.attempted) <= Len(writeLog.attempted) + 1
  /\ Len(writeLog'.attempted) > Len(writeLog.attempted) =>
        /\ ret'.op = "fileLoop"
        /\ ret'.task = writeLog.accepted[Len(writeLog.attempted) + 1]

C31_AttemptedOnceInOrder ==
  /\ [](/\ Len(writeLog.attempted) <= Len(writeLog.accepted)
        /\ writeLog.attempted = SubSeq(writeLog.accepted, 1, Len(writeLog.attempted)))
  /\ [][C31_Step]_vars
  /\ \A n \in 1..MaxWrites :
        (Len(writeLog.accepted) >= n) ~> (Len(writeLog.attempted) >= n)

\* two requests for the same path were queued together and both were
\* attempted, in the order they were accepted
C31_Witness ==
  /\ Len(writeLog.attempted) >= 3
  /\ writeLog.attempted[2].path = writeLog.attempted[3].path
  /\ writeLog.attempted[2].contents # writeLog.attempted[3].contents
  /\ ret.op = "fileLoop"
  /\ ret.attempted

\* C32: when a udp-in channel that holds no cached value accepts an update
\* that supplies a finite raw and no finite value, the channel then holds
\* that raw as its cached value, marked present, and a snapshot reports it
\* as the last value
C32_Step ==
  \A a \in FewArgs :
    (/\ ret'.op = "updateRemoteValue"
     /\ m_channels' = UpdatedTable(m_channels, a, millis)
     /\ lastSample' = SampleAfter(lastSample, m_channels, a, millis)
     /\ isFiniteNumber(a.raw)
     /\ ~isFiniteNumber(a.value))
    => \A n \in UpdatedSet(m_channels, a) :
         (~m_channels[n].remoteHasValue /\ ~lastSample[n].hasValue)
         => /\ m_channels'[n].lastRemoteValue = a.raw.v
            /\ m_channels'[n].remoteHasValue
            /\ SnapshotRemote(m_channels'[n], millis).has_last_value
            /\ SnapshotRemote(m_channels'[n], millis).last_value = a.raw.v

C32_ValueSeededFromRaw == [][C32_Step]_vars

\* the incoming id or label is the channel's own id, ignoring case
OwnIdMatches(ch, a) ==
  \E i \in {Trim(a.channelId), Trim(a.channelLabel)} :
    Len(i) > 0 /\ ToLower(i) = ToLower(ch.id)

\* the step is the call updateRemoteValue(a)
UpdateStepOf(a) ==
  /\ ret'.op = "updateRemoteValue"
  /\ m_channels' = UpdatedTable(m_channels, a, millis)
  /\ lastSample' = SampleAfter(lastSample, m_channels, a, millis)

\* C33: a udp-in channel that was configured without a descriptor accepts
\* an update only if the incoming channel id or label equals the channel's
\* own id ignoring case, in every reachable state, also once a descriptor
\* has been synthesized
C33_Step ==
  \A a \in UpdateArgs :
    UpdateStepOf(a) =>
      \A n \in UpdatedSet(m_channels, a) :
        ~ConfiguredTable[n].hasRemote => OwnIdMatches(m_channels[n], a)

C33_OwnIdOnly == [][C33_Step]_vars

\* the channel matches the update by fields of its descriptor: by id or
\* label, and by the mac, the ip or the hostname of the sender
MatchesByDescriptor(ch, a) ==
  /\ ch.isUdpIn
  /\ ch.hasRemote
  /\ IdMatches(ch, Trim(a.channelId), Trim(a.channelLabel))
  /\ HostMatches(ch, Trim(a.mac), Trim(a.ip), Trim(a.hostname))

\* the update of the same sender that carries the channel's own id
WithOwnId(ch, a) == [a EXCEPT !.channelId = ch.id, !.channelLabel = <<>>]

\* C34: once a udp-in channel configured without a descriptor has accepted
\* an update of a sender, every later update of that sender with the same
\* channel id and label, or with the channel's own id, is accepted too.
\* Stated by induction over the steps: the accepting call leaves the channel
\* matching both updates by fields of its descriptor; a match by fields of
\* the descriptor is accepted, and no later call takes it away (until the
\* table is loaded again)
C34_Step ==
  \A a \in SynthArgs :
    /\ UpdateStepOf(a) =>
         \A n \in UpdatedSet(m_channels, a) :
           ~ConfiguredTable[n].hasRemote =>
              /\ MatchesByDescriptor(m_channels'[n], a)
              /\ MatchesByDescriptor(m_channels'[n], WithOwnId(m_channels[n], a))
    /\ ret'.op # "begin" =>
         \A n \in Channels :
           \A b \in {a, WithOwnId(m_channels[n], a)} :
             (~ConfiguredTable[n].hasRemote /\ MatchesByDescriptor(m_channels[n], b))
             => /\ n \in UpdatedSet(m_channels, b)
                /\ MatchesByDescriptor(m_channels'[n], b)

C34_SourceStaysMatchable == [][C34_Step]_vars

\* the channel T1, configured without a descriptor, accepted an update of
\* the sender (BB, 10.1), later one of the sender (BB, 10.2, host), which
\* added the hostname to the descriptor, and then one of the first sender
\* again
C34_Witness ==
  /\ ioDoc = DocPlain
  /\ ret.op = "updateRemoteValue"
  /\ ret.updated = 1
  /\ m_channels[1].remote.mac = sBB
  /\ m_channels[1].remote.ip = sIp1
  /\ m_channels[1].remote.hostname = sHost
  /\ m_channels[1].resolvedMac = sBB
  /\ m_channels[1].resolvedIp = sIp1

\* the call of this step read the channel id, which is a multiplexed one
ReadsAds(id) ==
  /\ FindChannel(m_channels, id) # 0
  /\ ~m_channels[FindChannel(m_channels, id)].isUdpIn
  /\ m_channels[FindChannel(m_channels, id)].type = sTypeAds

\* C35: the multiplexed converter is initialised at most once over any
\* sequence of load, readRaw, readValue, snapshot and describeHardware:
\* once an attempt was made the converter state never changes again, and
\* after a failed attempt readRaw of a multiplexed channel returns 0 and
\* describeHardware reports the converter as not available
C35_Step ==
  /\ m_adsAttempted =>
        /\ m_adsAttempted'
        /\ m_ads' = m_ads
        /\ m_adsInitialized' = m_adsInitialized
  /\ (m_adsAttempted' /\ ~m_adsInitialized') =>
        /\ (ret'.op = "readRaw" /\ ReadsAds(ret'.id)) => ret'.value = 0
        /\ (ret'.op = "readValue" /\ ReadsAds(ret'.id)) => ret'.raw = 0
        /\ ret'.op = "describeHardware" => ~ret'.adsAvailable
        /\ ret'.op = "snapshot" =>
              \A n \in 1..Len(ret'.channels) :
                ReadsAds(ret'.channels[n].id) => ret'.channels[n].raw = 0

C35_InitialisedOnce == [][C35_Step]_vars

\* the initialisation failed when the table was loaded; the converter would
\* answer now, and a later readRaw of the multiplexed channel still returns 0
C35_Witness ==
  /\ m_adsAttempted
  /\ ~m_adsInitialized
  /\ ret.op = "readRaw"
  /\ ReadsAds(ret.id)
  /\ m_channels[FindChannel(m_channels, ret.id)].index < 4
  /\ ret.value = 0

IsDiscoverReply(sent) ==
  "type" \in DOMAIN sent.msg /\ sent.msg.type = "discover_reply"

\* C36: from the start of discoverPeers() until it returns no heartbeat is
\* sent and no tick of loop() runs, whatever the timeout; the scan sends its
\* one discover request when it starts, and after that only the replies the
\* inbound handler produces
C36_Step ==
  /\ (~scan.active /\ scan'.active) =>
        /\ Len(ret'.sent) = 1
        /\ IsDiscoverRequest(ret'.sent[1])
  /\ scan.active =>
        /\ m_lastSend' = m_lastSend
        /\ lastBeat' = lastBeat
        /\ ret' # ret =>
              /\ ret'.op \in {"discoverPoll", "discoverPeers"}
              /\ ret'.sent = IF ret'.op = "discoverPoll" THEN ret'.replies
                             ELSE <<>>
              /\ \A i \in 1..Len(ret'.sent) : IsDiscoverReply(ret'.sent[i])

C36_ScanSuspendsLoop == [][C36_Step]_vars

\* an iteration of a scan answered a discover request while a heartbeat was
\* due, and sent the reply only
C36_Witness ==
  /\ scan.active
  /\ HeartbeatDue
  /\ ret.op = "discoverPoll"
  /\ Len(ret.sent) = 1
  /\ IsDiscoverReply(ret.sent[1])

\* the sample a udp-in channel holds in its own cache
OwnSample(ch) ==
  IF ch.remoteHasRaw THEN ch.lastRemoteRaw
  ELSE IF ch.remoteHasValue THEN ch.lastRemoteValue
  ELSE 0

\* C37: in every entry snapshot() emits, value is k * raw + b of the same
\* entry, and the raw of a udp-in entry is the sample that channel holds in
\* its own cache, for every table begin() can load, also one in which
\* several channels carry the same id
C37_EntryConsistent ==
  ret.op = "snapshot" =>
    \A n \in 1..Len(ret.channels) :
      LET e == ret.channels[n]
      IN /\ e.value = e.k * e.raw + e.b
         /\ m_channels[n].isUdpIn => e.raw = OwnSample(m_channels[n])

\* C38: while a udp-in channel accepts no further update, a snapshot that
\* follows one that reported the channel "stale" reports it "stale" too,
\* however much time has passed, also when the 32-bit millisecond counter
\* has wrapped around in between (the last call before this snapshot was a
\* snapshot, so no update came in between)
C38_Step ==
  (/\ ret.op = "snapshot"
   /\ ret'.op = "snapshot"
   /\ m_channels' = m_channels
   /\ lastSample' = lastSample)
  => \A n \in 1..Len(ret.channels) :
       (ret.channels[n].hasRemoteObject /\ ret.channels[n].remote.status = "stale")
       => ret'.channels[n].remote.status = "stale"

C38_StaleStaysStale == [][C38_Step]_vars

\* C39: enqueue on a full queue drops the new request and leaves the queued
\* requests, their order and pending() unchanged; pending() always equals
\* the number of accepted requests not yet attempted and never exceeds the
\* capacity of the queue; a request whose write fails (temporary file not
\* opened, short write, rename failed) leaves the queue, the requests behind
\* it keep their order and the queue drains while loop() keeps being called
C39_Counted ==
  /\ pending = Len(writeLog.accepted) - Len(writeLog.attempted)
  /\ pending <= kMaxQueueLength

C39_Step ==
  /\ (ret'.op = "enqueue" /\ fileWriteService.m_count >= kMaxQueueLength)
     => /\ ~ret'.accepted
        /\ QueuedTasks(fileWriteService') = QueuedTasks(fileWriteService)
        /\ pending' = pending
  /\ (ret'.op = "fileLoop" /\ ret'.attempted /\ ret'.outcome # "complete")
     => /\ fileWriteService.m_count > 0
        /\ ret'.task = Head(QueuedTasks(fileWriteService))
        /\ QueuedTasks(fileWriteService') = Tail(QueuedTasks(fileWriteService))
        /\ ~fileWriteService'.m_busy

====
